---------------------------- MODULE Spec2Model ----------------------------
(***************************************************************************)
(* A model of the gusto backend (src/backend, src/agents): the REST routes *)
(* over the relational tables (friends, groups, collections, restaurants), *)
(* the chat endpoint with the in-process demo user store, and the hybrid   *)
(* allergy filter of the agent tools.                                      *)
(*                                                                         *)
(* Every handler is one action: its guards are the handler's early         *)
(* returns, in the handler's order, and the response it produces is kept   *)
(* in the variable resp so that properties can speak about the last call.  *)
(* The subsystems share no table but users, so each has a specification    *)
(* of its own in which the other variables stay at their initial value.    *)
(***************************************************************************)
EXTENDS Integers, Sequences, FiniteSets, TLC

VARIABLES
    users,                  \* db.User rows, by id (one per synced identity)
    friend_requests,        \* db.FriendRequest rows; the row id is the index
    friendships,            \* db.Friendship rows
    collections,            \* db.Collection rows; the row id is the index
    collection_restaurants, \* db.CollectionRestaurant rows
    groups,                 \* db.Group rows; the row id is the index
    group_members,          \* db.GroupMember rows
    USER_METADATA_MAP,      \* database.USER_METADATA_MAP, the demo user store
    GROQ_API_KEY,           \* config.GROQ_API_KEY: is the LLM key configured
    tool_call,              \* the arguments and result of the last tool call
    resp,                   \* the last request and its response
    tasks,                  \* the add_restaurant requests in flight
    _jwks_cache,            \* cognito_auth._jwks_cache
    _jwks_cache_time,       \* cognito_auth._jwks_cache_time
    utcnow,                 \* the clock datetime.utcnow() reads
    _ingredient_upsert_done, \* pinecone_client._ingredient_upsert_done
    pinecone_index          \* the records of the remote Pinecone index

dbVars == <<users, friend_requests, friendships, collections,
            collection_restaurants, groups, group_members>>

\* The in-process state outside the database.
\* The state of the modules and of the request tasks in flight.
moduleVars == <<tasks, _jwks_cache, _jwks_cache_time, utcnow,
                _ingredient_upsert_done, pinecone_index>>

procVars == <<USER_METADATA_MAP, GROQ_API_KEY, tool_call, moduleVars>>

vars == <<users, friend_requests, friendships, collections,
          collection_restaurants, groups, group_members,
          USER_METADATA_MAP, GROQ_API_KEY, tool_call, resp, moduleVars>>

---------------------------------------------------------------------------
(* Bounds of the exploration.                                              *)

MaxRequests == 3
MaxCollections == 2
MaxSaved == 2
MaxGroups == 1
MaxMemberIds == 2
MaxMembers == 4
MaxSocialRows == 3

---------------------------------------------------------------------------
(* Identities and tokens.                                                  *)

\* The identities that can hold a verified token.
People == {"u1", "u2", "u3"}

\* Two of them, for the routes explored with two parties.
Pair == {"u1", "u2"}

NoToken == "none"
BadToken == "bad"

\* What an Authorization header can carry: nothing, a token that does not
\* verify, or a verified token of one identity.
Tokens == People \cup {NoToken, BadToken}

\* A user id that no User row ever has.
GhostUser == "ghost"

\* The external (Yelp) restaurant ids of the requests.
RestaurantIds == {"r1", "r2"}

\* cognito_auth.get_cognito_user_id: the subject of a verified token.
NoSubject == "nosub"
get_cognito_user_id(token) == IF token \in People THEN token ELSE NoSubject

\* middleware.auth.get_current_user_id: 401 when the header is missing or
\* the token does not verify, else the subject.
get_current_user_id(token) ==
    IF token = NoToken THEN [status |-> 401, user_id |-> NoSubject]
    ELSE IF get_cognito_user_id(token) = NoSubject
         THEN [status |-> 401, user_id |-> NoSubject]
         ELSE [status |-> 200, user_id |-> get_cognito_user_id(token)]

---------------------------------------------------------------------------
(* Query helpers.                                                          *)

\* The indices of the rows of a table that satisfy a predicate.
Matching(table, P(_)) == {i \in 1..Len(table) : P(table[i])}

\* sqlalchemy Result.scalar_one_or_none: no row, the one row, or
\* MultipleResultsFound raised.
scalar_one_or_none(rowset) ==
    IF rowset = {} THEN "none"
    ELSE IF Cardinality(rowset) = 1 THEN "one" ELSE "multiple"

\* A sequence without its i-th element.
RemoveAt(s, i) == SubSeq(s, 1, i - 1) \o SubSeq(s, i + 1, Len(s))

Reply(op, token, arg, status) ==
    [op |-> op, token |-> token, arg |-> arg, status |-> status]

\* select(User).where(User.cognito_user_id == ...): is there such a row.
UserExists(user_id) == user_id \in DOMAIN users

---------------------------------------------------------------------------
(* routes/users.py                                                         *)

ZeroTaste == <<0, 0, 0, 0, 0, 0>>

\* The claims of a verified token.
Claims(token) == [email |-> token, name |-> token]

\* The User row sync_user creates, with the column defaults of db.User.
NewUser(claims) ==
    [email |-> claims.email, name |-> claims.name, location |-> "",
     allergies |-> <<>>, diet_type |-> "mix", taste_vector |-> ZeroTaste,
     favorite_dishes |-> <<>>]

sync_user_ResetRow(token, claims) ==
    LET auth == get_current_user_id(token)
        uid == auth.user_id IN
    /\ users' =
          IF auth.status # 200 THEN users
          ELSE [u \in DOMAIN users \cup {uid} |->
                   IF u = uid THEN NewUser(claims) ELSE users[u]]
    /\ resp' = Reply("sync_user", token, token, auth.status)
    /\ UNCHANGED procVars
    /\ UNCHANGED <<friend_requests, friendships, collections,
                   collection_restaurants, groups, group_members>>

\* sync_user: creates the User row of the token's subject on the first call,
\* and afterwards updates only a changed, non-empty email or name.
sync_user(token, claims) ==
    LET auth == get_current_user_id(token)
        uid == auth.user_id IN
    /\ users' =
          IF auth.status # 200 THEN users
          ELSE IF ~UserExists(uid)
               THEN [u \in DOMAIN users \cup {uid} |->
                        IF u = uid THEN NewUser(claims) ELSE users[u]]
               ELSE [users EXCEPT
                        ![uid].email = IF claims.email # "" /\ @ # claims.email
                                       THEN claims.email ELSE @,
                        ![uid].name = IF claims.name # "" /\ @ # claims.name
                                      THEN claims.name ELSE @]
    /\ resp' = Reply("sync_user", token, token, auth.status)
    /\ UNCHANGED procVars
    /\ UNCHANGED <<friend_requests, friendships, collections,
                   collection_restaurants, groups, group_members>>

---------------------------------------------------------------------------
(* routes/friends.py                                                       *)

FriendshipBetween(a, b) ==
    Matching(friendships,
             LAMBDA f : \/ (f.user1_id = a /\ f.user2_id = b)
                        \/ (f.user1_id = b /\ f.user2_id = a))

PendingFromTo(a, b) ==
    Matching(friend_requests,
             LAMBDA r : r.from_user_id = a /\ r.to_user_id = b
                        /\ r.status = "pending")

\* The status send_friend_request answers with, decided by its checks in order.
send_friend_request_status(token, to_user_id) ==
    LET auth == get_current_user_id(token) IN
    IF auth.status # 200 THEN 401
    ELSE IF ~UserExists(auth.user_id) THEN 404
    ELSE IF ~UserExists(to_user_id) THEN 404
    ELSE IF auth.user_id = to_user_id THEN 400
    ELSE IF scalar_one_or_none(FriendshipBetween(auth.user_id, to_user_id)) = "multiple"
         THEN 500
    ELSE IF scalar_one_or_none(FriendshipBetween(auth.user_id, to_user_id)) = "one"
         THEN 400
    ELSE IF scalar_one_or_none(PendingFromTo(auth.user_id, to_user_id)) = "multiple"
         THEN 500
    ELSE IF scalar_one_or_none(PendingFromTo(auth.user_id, to_user_id)) = "one"
         THEN 400
    ELSE 200

send_friend_request_AddBeforeChecks(token, to_user_id) ==
    LET status == send_friend_request_status(token, to_user_id) IN
    /\ friend_requests' =
          IF status \in {200, 400}
          THEN Append(friend_requests,
                      [from_user_id |-> get_current_user_id(token).user_id,
                       to_user_id |-> to_user_id,
                       status |-> "pending"])
          ELSE friend_requests
    /\ resp' = Reply("send_friend_request", token, to_user_id, status)
    /\ UNCHANGED procVars
    /\ UNCHANGED <<users, friendships, collections, collection_restaurants,
                   groups, group_members>>

send_friend_request(token, to_user_id) ==
    LET status == send_friend_request_status(token, to_user_id) IN
    /\ friend_requests' =
          IF status = 200
          THEN Append(friend_requests,
                      [from_user_id |-> get_current_user_id(token).user_id,
                       to_user_id |-> to_user_id,
                       status |-> "pending"])
          ELSE friend_requests
    /\ resp' = Reply("send_friend_request", token, to_user_id, status)
    /\ UNCHANGED procVars
    /\ UNCHANGED <<users, friendships, collections, collection_restaurants,
                   groups, group_members>>

\* PendingRequestFor without the status filter of its where-clause.
PendingRequestFor_AnyStatus(request_id, user_id) ==
    {i \in Matching(friend_requests, LAMBDA r : r.to_user_id = user_id) :
        i = request_id}

\* The rows the accept and decline handlers select: the request of that id,
\* addressed to the caller, still pending.
PendingRequestFor(request_id, user_id) ==
    {i \in Matching(friend_requests,
                    LAMBDA r : r.to_user_id = user_id /\ r.status = "pending") :
        i = request_id}

answer_friend_request_status(token, request_id) ==
    LET auth == get_current_user_id(token) IN
    IF auth.status # 200 THEN 401
    ELSE IF ~UserExists(auth.user_id) THEN 404
    ELSE IF scalar_one_or_none(PendingRequestFor(request_id, auth.user_id)) = "none"
         THEN 404
    ELSE 200

accept_friend_request(token, request_id) ==
    LET status == answer_friend_request_status(token, request_id) IN
    /\ IF status = 200
       THEN /\ friendships' =
                  Append(friendships,
                         [user1_id |-> friend_requests[request_id].from_user_id,
                          user2_id |-> friend_requests[request_id].to_user_id])
            /\ friend_requests' =
                  [friend_requests EXCEPT ![request_id].status = "accepted"]
       ELSE UNCHANGED <<friendships, friend_requests>>
    /\ resp' = Reply("accept_friend_request", token, request_id, status)
    /\ UNCHANGED procVars
    /\ UNCHANGED <<users, collections, collection_restaurants, groups,
                   group_members>>

decline_friend_request(token, request_id) ==
    LET status == answer_friend_request_status(token, request_id) IN
    /\ friend_requests' =
          IF status = 200
          THEN [friend_requests EXCEPT ![request_id].status = "declined"]
          ELSE friend_requests
    /\ resp' = Reply("decline_friend_request", token, request_id, status)
    /\ UNCHANGED procVars
    /\ UNCHANGED <<users, friendships, collections, collection_restaurants,
                   groups, group_members>>

\* get_friends: the other user of every Friendship row that names the
\* caller, one entry per row.
get_friends(user_id) ==
    LET rows == SelectSeq(friendships,
                          LAMBDA f : f.user1_id = user_id
                                     \/ f.user2_id = user_id) IN
    [i \in 1..Len(rows) |->
        IF rows[i].user1_id = user_id THEN rows[i].user2_id
        ELSE rows[i].user1_id]

---------------------------------------------------------------------------
(* routes/collections.py                                                   *)

CollectionExists(collection_id) == collection_id \in 1..Len(collections)

SavedRows(collection_id, restaurant_id) ==
    Matching(collection_restaurants,
             LAMBDA r : r.collection_id = collection_id
                        /\ r.restaurant_id = restaurant_id)

create_collection(token) ==
    LET auth == get_current_user_id(token)
        status == IF auth.status # 200 THEN 401
                  ELSE IF ~UserExists(auth.user_id) THEN 404 ELSE 200 IN
    /\ collections' =
          IF status = 200
          THEN Append(collections, [user_id |-> auth.user_id])
          ELSE collections
    /\ resp' = Reply("create_collection", token, token, status)
    /\ UNCHANGED procVars
    /\ UNCHANGED <<users, friend_requests, friendships,
                   collection_restaurants, groups, group_members>>

\* collection_access_status without the ownership check.
collection_access_status_AnyUser(token, collection_id) ==
    LET auth == get_current_user_id(token) IN
    IF auth.status # 200 THEN 401
    ELSE IF ~UserExists(auth.user_id) THEN 404
    ELSE IF ~CollectionExists(collection_id) THEN 404
    ELSE 200

\* The checks add_restaurant and remove_restaurant share: the caller's User
\* row, the collection, its owner.
collection_access_status(token, collection_id) ==
    LET auth == get_current_user_id(token) IN
    IF auth.status # 200 THEN 401
    ELSE IF ~UserExists(auth.user_id) THEN 404
    ELSE IF ~CollectionExists(collection_id) THEN 404
    ELSE IF collections[collection_id].user_id # auth.user_id THEN 403
    ELSE 200

\* add_restaurant without its already-in-collection check.
add_restaurant_status_NoDupCheck(token, collection_id, restaurant_id) ==
    collection_access_status(token, collection_id)

add_restaurant_status(token, collection_id, restaurant_id) ==
    IF collection_access_status(token, collection_id) # 200
    THEN collection_access_status(token, collection_id)
    ELSE IF scalar_one_or_none(SavedRows(collection_id, restaurant_id)) = "multiple"
         THEN 500
    ELSE IF scalar_one_or_none(SavedRows(collection_id, restaurant_id)) = "one"
         THEN 400
    ELSE 200

add_restaurant(token, collection_id, restaurant_id) ==
    LET status == add_restaurant_status(token, collection_id, restaurant_id) IN
    /\ collection_restaurants' =
          IF status = 200
          THEN Append(collection_restaurants,
                      [collection_id |-> collection_id,
                       restaurant_id |-> restaurant_id])
          ELSE collection_restaurants
    /\ resp' = Reply("add_restaurant", token,
                     <<collection_id, restaurant_id>>, status)
    /\ UNCHANGED procVars
    /\ UNCHANGED <<users, friend_requests, friendships, collections,
                   groups, group_members>>

\* add_restaurant as the event loop runs it: a task per request, each with
\* its own session, which gives way to the other tasks at every awaited
\* database call. A task holds its request and the await it has reached.
Tasks == {1, 2}

Idle == [pc |-> "idle"]

\* The request arrives: get_current_user_id has answered before the handler
\* body runs.
add_restaurant_begin(t, token, collection_id, restaurant_id) ==
    /\ tasks[t] = Idle
    /\ IF get_current_user_id(token).status # 200
       THEN /\ resp' = Reply("add_restaurant", token,
                             <<collection_id, restaurant_id>>, 401)
            /\ UNCHANGED tasks
       ELSE /\ tasks' = [tasks EXCEPT ![t] =
                            [pc |-> "select_user", token |-> token,
                             collection_id |-> collection_id,
                             restaurant_id |-> restaurant_id]]
            /\ UNCHANGED resp
    /\ UNCHANGED <<USER_METADATA_MAP, GROQ_API_KEY, tool_call>>
    /\ UNCHANGED <<_jwks_cache, _jwks_cache_time, utcnow>>
    /\ UNCHANGED <<_ingredient_upsert_done, pinecone_index>>
    /\ UNCHANGED dbVars

\* The task answers with a status and ends.
TaskReplies(t, status) ==
    /\ resp' = Reply("add_restaurant", tasks[t].token,
                     <<tasks[t].collection_id, tasks[t].restaurant_id>>,
                     status)
    /\ tasks' = [tasks EXCEPT ![t] = Idle]

\* The task goes on to its next await.
TaskGoesTo(t, pc) ==
    /\ tasks' = [tasks EXCEPT ![t].pc = pc]
    /\ UNCHANGED resp

\* await db.execute(select(User)...): 404 without the caller's User row.
add_restaurant_select_user(t) ==
    /\ tasks[t].pc = "select_user"
    /\ IF ~UserExists(get_current_user_id(tasks[t].token).user_id)
       THEN TaskReplies(t, 404)
       ELSE TaskGoesTo(t, "select_collection")
    /\ UNCHANGED <<USER_METADATA_MAP, GROQ_API_KEY, tool_call>>
    /\ UNCHANGED <<_jwks_cache, _jwks_cache_time, utcnow>>
    /\ UNCHANGED <<_ingredient_upsert_done, pinecone_index>>
    /\ UNCHANGED dbVars

\* await db.execute(select(Collection)...): 404 without the collection, 403
\* when it is another user's.
add_restaurant_select_collection(t) ==
    /\ tasks[t].pc = "select_collection"
    /\ IF ~CollectionExists(tasks[t].collection_id)
       THEN TaskReplies(t, 404)
       ELSE IF collections[tasks[t].collection_id].user_id
                  # get_current_user_id(tasks[t].token).user_id
            THEN TaskReplies(t, 403)
            ELSE TaskGoesTo(t, "select_existing")
    /\ UNCHANGED <<USER_METADATA_MAP, GROQ_API_KEY, tool_call>>
    /\ UNCHANGED <<_jwks_cache, _jwks_cache_time, utcnow>>
    /\ UNCHANGED <<_ingredient_upsert_done, pinecone_index>>
    /\ UNCHANGED dbVars

\* await db.execute(select(CollectionRestaurant)...): 400 when the
\* collection holds the restaurant, 500 when scalar_one_or_none finds
\* several rows.
add_restaurant_select_existing(t) ==
    LET existing == scalar_one_or_none(SavedRows(tasks[t].collection_id,
                                                 tasks[t].restaurant_id)) IN
    /\ tasks[t].pc = "select_existing"
    /\ IF existing = "multiple" THEN TaskReplies(t, 500)
       ELSE IF existing = "one" THEN TaskReplies(t, 400)
       ELSE TaskGoesTo(t, "commit")
    /\ UNCHANGED <<USER_METADATA_MAP, GROQ_API_KEY, tool_call>>
    /\ UNCHANGED <<_jwks_cache, _jwks_cache_time, utcnow>>
    /\ UNCHANGED <<_ingredient_upsert_done, pinecone_index>>
    /\ UNCHANGED dbVars

\* db.add(collection_restaurant); await db.commit(): the row is inserted;
\* the table has no unique constraint that could refuse it.
add_restaurant_commit(t) ==
    /\ tasks[t].pc = "commit"
    /\ collection_restaurants' =
          Append(collection_restaurants,
                 [collection_id |-> tasks[t].collection_id,
                  restaurant_id |-> tasks[t].restaurant_id])
    /\ TaskReplies(t, 200)
    /\ UNCHANGED <<USER_METADATA_MAP, GROQ_API_KEY, tool_call>>
    /\ UNCHANGED <<_jwks_cache, _jwks_cache_time, utcnow>>
    /\ UNCHANGED <<_ingredient_upsert_done, pinecone_index>>
    /\ UNCHANGED <<users, friend_requests, friendships, collections,
                   groups, group_members>>

remove_restaurant_status(token, collection_id, restaurant_id) ==
    IF collection_access_status(token, collection_id) # 200
    THEN collection_access_status(token, collection_id)
    ELSE IF scalar_one_or_none(SavedRows(collection_id, restaurant_id)) = "multiple"
         THEN 500
    ELSE IF scalar_one_or_none(SavedRows(collection_id, restaurant_id)) = "none"
         THEN 404
    ELSE 200

remove_restaurant(token, collection_id, restaurant_id) ==
    LET status == remove_restaurant_status(token, collection_id, restaurant_id) IN
    /\ collection_restaurants' =
          IF status = 200
          THEN RemoveAt(collection_restaurants,
                        CHOOSE i \in SavedRows(collection_id, restaurant_id) : TRUE)
          ELSE collection_restaurants
    /\ resp' = Reply("remove_restaurant", token,
                     <<collection_id, restaurant_id>>, status)
    /\ UNCHANGED procVars
    /\ UNCHANGED <<users, friend_requests, friendships, collections,
                   groups, group_members>>

---------------------------------------------------------------------------
(* routes/groups.py                                                        *)

GroupExists(group_id) == group_id \in 1..Len(groups)

MemberRows(group_id, user_id) ==
    Matching(group_members,
             LAMBDA m : m.group_id = group_id /\ m.user_id = user_id)

\* The GroupMember rows create_group adds after the creator's: one for every
\* entry of member_ids that is not the creator, in order.
RECURSIVE OtherMemberRows(_, _, _)
OtherMemberRows(group_id, creator, member_ids) ==
    IF member_ids = <<>> THEN <<>>
    ELSE (IF Head(member_ids) # creator
          THEN <<[group_id |-> group_id, user_id |-> Head(member_ids)]>>
          ELSE <<>>)
         \o OtherMemberRows(group_id, creator, Tail(member_ids))

create_group(token, member_ids) ==
    LET auth == get_current_user_id(token)
        status == IF auth.status # 200 THEN 401
                  ELSE IF ~UserExists(auth.user_id) THEN 404 ELSE 200
        group_id == Len(groups) + 1 IN
    /\ IF status = 200
       THEN /\ groups' = Append(groups, [created_by |-> auth.user_id])
            /\ group_members' =
                  group_members
                  \o <<[group_id |-> group_id, user_id |-> auth.user_id]>>
                  \o OtherMemberRows(group_id, auth.user_id, member_ids)
       ELSE UNCHANGED <<groups, group_members>>
    /\ resp' = Reply("create_group", token, member_ids, status)
    /\ UNCHANGED procVars
    /\ UNCHANGED <<users, friend_requests, friendships, collections,
                   collection_restaurants>>

add_member_status(token, group_id, user_id) ==
    LET auth == get_current_user_id(token) IN
    IF auth.status # 200 THEN 401
    ELSE IF ~UserExists(auth.user_id) THEN 404
    ELSE IF ~GroupExists(group_id) THEN 404
    ELSE IF scalar_one_or_none(MemberRows(group_id, auth.user_id)) = "multiple"
         THEN 500
    ELSE IF scalar_one_or_none(MemberRows(group_id, auth.user_id)) = "none"
         THEN 403
    ELSE IF ~UserExists(user_id) THEN 404
    ELSE IF scalar_one_or_none(MemberRows(group_id, user_id)) = "multiple"
         THEN 500
    ELSE IF scalar_one_or_none(MemberRows(group_id, user_id)) = "one"
         THEN 400
    ELSE 200

add_member(token, group_id, user_id) ==
    LET status == add_member_status(token, group_id, user_id) IN
    /\ group_members' =
          IF status = 200
          THEN Append(group_members, [group_id |-> group_id, user_id |-> user_id])
          ELSE group_members
    /\ resp' = Reply("add_member", token, <<group_id, user_id>>, status)
    /\ UNCHANGED procVars
    /\ UNCHANGED <<users, friend_requests, friendships, collections,
                   collection_restaurants, groups>>

\* The rows of the join of GroupMember and User for a group: one entry per
\* member row whose user has a User row.
MembersOf(group_id) ==
    LET rows == SelectSeq(group_members,
                          LAMBDA m : m.group_id = group_id
                                     /\ UserExists(m.user_id)) IN
    [i \in 1..Len(rows) |->
        [id |-> rows[i].user_id,
         taste_vector |-> users[rows[i].user_id].taste_vector,
         allergies |-> users[rows[i].user_id].allergies]]

\* A response with a body.
ReplyWith(op, token, arg, status, members) ==
    [op |-> op, token |-> token, arg |-> arg, status |-> status,
     members |-> members]

get_group_status(token, group_id) ==
    LET auth == get_current_user_id(token) IN
    IF auth.status # 200 THEN 401
    ELSE IF ~UserExists(auth.user_id) THEN 404
    ELSE IF ~GroupExists(group_id) THEN 404
    ELSE IF scalar_one_or_none(MemberRows(group_id, auth.user_id)) = "multiple"
         THEN 500
    ELSE IF scalar_one_or_none(MemberRows(group_id, auth.user_id)) = "none"
         THEN 403
    ELSE 200

\* get_group: the members of the group, for a member.
get_group(token, group_id) ==
    /\ resp' = ReplyWith("get_group", token, group_id,
                         get_group_status(token, group_id),
                         IF get_group_status(token, group_id) = 200
                         THEN MembersOf(group_id) ELSE <<>>)
    /\ UNCHANGED procVars
    /\ UNCHANGED dbVars

\* The status of get_group_recommendations: the caller's User row and the
\* group are looked up, the caller's membership is not.
get_group_recommendations_status(token, group_id) ==
    LET auth == get_current_user_id(token) IN
    IF auth.status # 200 THEN 401
    ELSE IF ~UserExists(auth.user_id) THEN 404
    ELSE IF ~GroupExists(group_id) THEN 404
    ELSE 200

\* get_group_recommendations: the members of the group with their taste
\* vectors and allergies (the combined vector and allergies are computed
\* from these).
get_group_recommendations(token, group_id) ==
    /\ resp' = ReplyWith("get_group_recommendations", token, group_id,
                         get_group_recommendations_status(token, group_id),
                         IF get_group_recommendations_status(token, group_id)
                               = 200
                         THEN MembersOf(group_id) ELSE <<>>)
    /\ UNCHANGED procVars
    /\ UNCHANGED dbVars

---------------------------------------------------------------------------
(* routes/users.py update_profile, and routes/restaurants.py               *)

SpicyTaste == <<0, 0, 0, 0, 0, 1>>

\* The bodies of the update_profile requests: a field a body omits is None.
UpdateProfileRequests ==
    {[allergies |-> a] : a \in {<<>>, <<"nuts">>}}
    \cup {[diet_type |-> d] : d \in {"", "veg"}}
    \cup {[taste_vector |-> t] : t \in {<<>>, SpicyTaste}}
    \cup {[allergies |-> <<"nuts">>, diet_type |-> "veg",
           taste_vector |-> SpicyTaste]}

\* update_profile: every field of the request that is not None replaces
\* the column of the caller's row; 404 when the caller has no row.
update_profile(token, request) ==
    LET auth == get_current_user_id(token)
        uid == auth.user_id
        status == IF auth.status # 200 THEN auth.status
                  ELSE IF ~UserExists(uid) THEN 404 ELSE 200 IN
    /\ users' =
          IF status # 200 THEN users
          ELSE [users EXCEPT ![uid] =
                   [f \in DOMAIN users[uid] |->
                       IF f \in DOMAIN request THEN request[f]
                       ELSE users[uid][f]]]
    /\ resp' = Reply("update_profile", token, request, status)
    /\ UNCHANGED procVars
    /\ UNCHANGED <<friend_requests, friendships, collections,
                   collection_restaurants, groups, group_members>>

\* The preferences of a caller without a profile.
AnonymousDefaults ==
    [taste_vector |-> ZeroTaste, allergies |-> <<>>, diet_type |-> "mix"]

\* The preferences the restaurant routes rank with: the columns of the
\* caller's row where they are truthy, the defaults otherwise.
stored_preferences(cognito_user_id) ==
    IF cognito_user_id # NoSubject /\ UserExists(cognito_user_id)
    THEN LET user == users[cognito_user_id] IN
         [taste_vector |-> IF user.taste_vector = <<>> THEN ZeroTaste
                           ELSE user.taste_vector,
          allergies |-> user.allergies,
          diet_type |-> IF user.diet_type = "" THEN "mix"
                        ELSE user.diet_type]
    ELSE AnonymousDefaults

\* What the vector store answers: it cannot be reached (the call raises),
\* it has no match, or it has matches.
VectorOutcomes == {"down", "empty", "hit"}

NoPrefs == [taste_vector |-> <<>>, allergies |-> <<>>, diet_type |-> ""]

RestaurantReply(op, token, arg, status, prefs) ==
    [op |-> op, token |-> token, arg |-> arg, status |-> status,
     prefs |-> prefs]

\* discover_restaurants: the dependency get_current_user_id answers 401
\* before the handler runs; any exception inside the handler is a 500; no
\* match is an empty feed; matches are ranked with the preferences.
discover_restaurants(token, vector) ==
    LET auth == get_current_user_id(token)
        prefs == stored_preferences(auth.user_id) IN
    /\ resp' =
          IF auth.status # 200
          THEN RestaurantReply("discover_restaurants", token, vector,
                               auth.status, NoPrefs)
          ELSE IF vector = "down"
          THEN RestaurantReply("discover_restaurants", token, vector, 500,
                               NoPrefs)
          ELSE IF vector = "empty"
          THEN RestaurantReply("discover_restaurants", token, vector, 200,
                               NoPrefs)
          ELSE RestaurantReply("discover_restaurants", token, vector, 200,
                               prefs)
    /\ UNCHANGED procVars
    /\ UNCHANGED dbVars

\* get_restaurant: as above, and 404 when the store has no match.
get_restaurant(token, restaurant_id, vector) ==
    LET auth == get_current_user_id(token)
        prefs == stored_preferences(auth.user_id) IN
    /\ resp' =
          IF auth.status # 200
          THEN RestaurantReply("get_restaurant", token, restaurant_id,
                               auth.status, NoPrefs)
          ELSE IF vector = "down"
          THEN RestaurantReply("get_restaurant", token, restaurant_id, 500,
                               NoPrefs)
          ELSE IF vector = "empty"
          THEN RestaurantReply("get_restaurant", token, restaurant_id, 404,
                               NoPrefs)
          ELSE RestaurantReply("get_restaurant", token, restaurant_id, 200,
                               prefs)
    /\ UNCHANGED procVars
    /\ UNCHANGED dbVars

---------------------------------------------------------------------------
(* Texts. A text is the sequence of its words, with a comma as a word of   *)
(* its own; "" is the empty sequence and None a text no request writes.    *)

None == <<"(None)">>

\* An Optional[str] diet that is None.
NoDiet == "(None)"

\* Python truthiness of an optional text.
Truthy(text) == text # None /\ text # <<>>

\* str.lower, word by word (or letter by letter).
Lower(word) ==
    CASE word = "Boston" -> "boston"
      [] word = "Pizza" -> "pizza"
      [] word = "Chicago" -> "chicago"
      [] word = "P" -> "p"
      [] word = "N" -> "n"
      [] OTHER -> word

lower(text) == [i \in DOMAIN text |-> Lower(text[i])]

\* The number of characters of a word, up to 3 (the code compares lengths
\* with 2 only).
Chars(word) ==
    IF word \in {"i", ","} THEN 1
    ELSE IF word \in {"me", "of", "in", "at", "is", "to", "ny"} THEN 2
    ELSE 3

RECURSIVE len(_)
len(text) ==
    IF text = <<>> THEN 0
    ELSE IF Len(text) = 1 THEN Chars(text[1])
    ELSE Chars(text[1]) + 1 + len(Tail(text))

\* Does the text contain the phrase (whole words).
Contains(text, phrase) ==
    \E i \in 1..(Len(text) - Len(phrase) + 1) :
        SubSeq(text, i, i + Len(phrase) - 1) = phrase

StartsWith(text, phrase) ==
    Len(text) >= Len(phrase) /\ SubSeq(text, 1, Len(phrase)) = phrase

Least(S) == CHOOSE i \in S : \A j \in S : i <= j

---------------------------------------------------------------------------
(* routes/chat.py: the query parsers.                                      *)

LocationPrepositions == <<"near", "in", "at", "around">>
LocationTerminators == {",", "also", "and"}
non_locations ==
    {<<"me">>, <<"here">>, <<"there">>, <<"my", "place">>, <<"home">>}

\* One pattern of extract_location_from_query: the words after the first
\* occurrence of the preposition that has a word after it, up to the first
\* comma, "also", "and" or the end.
PatternLocation(text, preposition) ==
    LET starts == {i \in 1..(Len(text) - 1) : text[i] = preposition} IN
    IF starts = {} THEN None
    ELSE LET i == Least(starts)
             stops == {j \in (i + 2)..Len(text) :
                          text[j] \in LocationTerminators}
             stop == IF stops = {} THEN Len(text) + 1 ELSE Least(stops) IN
         SubSeq(text, i + 1, stop - 1)

RECURSIVE LocationFromPattern(_, _)
LocationFromPattern(text, k) ==
    IF k > Len(LocationPrepositions) THEN None
    ELSE LET location == PatternLocation(text, LocationPrepositions[k]) IN
         IF location # None /\ location \notin non_locations
            /\ len(location) > 2
         THEN location
         ELSE LocationFromPattern(text, k + 1)

\* extract_location_from_query: the first pattern, in the order near, in,
\* at, around, whose capture is a location; the capture is lower case.
extract_location_from_query(query) == LocationFromPattern(lower(query), 1)

generic_locations ==
    {<<"downtown">>, <<"nearby">>, <<"near", "me">>, <<"around", "here">>,
     <<"local">>, <<"in", "the", "area">>}

greetings ==
    {<<"hi">>, <<"hello">>, <<"hey">>, <<"hola">>, <<"greetings">>,
     <<"good", "morning">>, <<"good", "afternoon">>, <<"good", "evening">>,
     <<"howdy">>, <<"what's", "up">>, <<"whats", "up">>, <<"sup">>,
     <<"yo">>, <<"hiya">>, <<"heya">>}

\* is_greeting: the query is a greeting or starts with one and a space.
is_greeting(query) ==
    \E greeting \in greetings : StartsWith(lower(query), greeting)

\* The words of the queries that hold a keyword of is_relevant_query.
relevant_keywords ==
    {"food", "eat", "restaurant", "dish", "meal", "hungry", "craving",
     "lunch", "dinner", "breakfast", "cuisine", "menu", "order", "pizza",
     "burger", "sushi", "pasta", "chicken", "veg", "non-veg", "taste",
     "flavor", "spicy", "sweet", "savory"}

irrelevant_keywords ==
    {"tourist", "sightseeing", "museum", "park", "beach", "hotel",
     "shopping", "mall", "attraction", "landmark", "monument"}

HasKeyword(text, keywords) == \E i \in DOMAIN text : text[i] \in keywords

\* What the LLM answers to the relevance question, or that the call fails.
LlmOutcomes == {"yes", "no", "down"}

\* is_relevant_query: the keyword fast paths, else the LLM's answer, and
\* True when the LLM call fails.
is_relevant_query(query, llm) ==
    LET has_irrelevant == HasKeyword(lower(query), irrelevant_keywords)
        has_relevant == HasKeyword(lower(query), relevant_keywords) IN
    IF has_irrelevant /\ ~has_relevant THEN FALSE
    ELSE IF has_relevant THEN TRUE
    ELSE llm # "no"

\* is_restaurant_menu_query, the patterns "menu for|of|at X": the words
\* after them without a final "restaurant", when longer than 2 characters.
\* (The other patterns start with show, tell or what.)
is_restaurant_menu_query(query) ==
    LET text == lower(query)
        starts == {i \in 1..(Len(text) - 2) :
                      text[i] = "menu" /\ text[i + 1] \in {"for", "of", "at"}} IN
    IF starts = {} THEN None
    ELSE LET i == Least(starts)
             rest == SubSeq(text, i + 2, Len(text))
             name == IF Len(rest) > 1 /\ rest[Len(rest)] = "restaurant"
                     THEN SubSeq(rest, 1, Len(rest) - 1) ELSE rest IN
         IF len(name) > 2 THEN name ELSE None

DishHeads ==
    {<<"i", "want">>, <<"i'd", "like">>, <<"i", "need">>, <<"give", "me">>,
     <<"show", "me">>, <<"find">>, <<"get", "me">>, <<"looking", "for">>}

generic_terms ==
    {"food", "something", "anything", "restaurant", "place", "restaurants",
     "places"}

preference_words ==
    {"spicy", "savory", "sweet", "sour", "salty", "bitter", "hot", "mild",
     "delicious", "tasty", "good", "fresh", "healthy", "light", "heavy"}

\* is_dish_query, the pattern "I want X" (no "to"): X without a leading
\* "some" or article, up to near, in, at or the end, when it has a word
\* that is neither generic nor a preference and is longer than 2
\* characters. A query of one word is no dish query.
is_dish_query(query) ==
    LET text == lower(query)
        heads == {h \in DishHeads : StartsWith(text, h)} IN
    IF Len(text) <= 1 \/ heads = {} THEN None
    ELSE LET head == CHOOSE h \in heads : TRUE
             after == SubSeq(text, Len(head) + 1, Len(text))
             body == IF Len(after) > 1 /\ after[1] = "some" THEN Tail(after)
                     ELSE after
             stops == {j \in 2..Len(body) : body[j] \in {"near", "in", "at"}}
             stop == IF stops = {} THEN Len(body) + 1 ELSE Least(stops)
             phrase == SubSeq(body, 1, stop - 1)
             dish_name == IF Len(phrase) > 1
                             /\ phrase[1] \in {"a", "an", "the", "some"}
                          THEN Tail(phrase) ELSE phrase
             meaningful == {i \in DOMAIN dish_name :
                               dish_name[i] \notin generic_terms
                                  \cup preference_words \cup {"and", "or"}} IN
         IF after = <<>> \/ after[1] = "to" \/ body = <<>> THEN None
         ELSE IF meaningful = {} THEN None
         ELSE IF len(dish_name) > 2 THEN dish_name ELSE None

\* An Optional[str] cuisine that is None.
NoCuisine == "(None)"

\* The cuisines of extract_cuisine_from_query with their keywords, in the
\* order of the dict.
cuisines ==
    <<[name |-> "thai", keywords |-> {<<"thai">>}],
      [name |-> "italian", keywords |-> {<<"italian">>, <<"pizza">>, <<"pasta">>}],
      [name |-> "chinese", keywords |-> {<<"chinese">>}],
      [name |-> "japanese", keywords |-> {<<"japanese">>, <<"sushi">>, <<"ramen">>}],
      [name |-> "indian", keywords |-> {<<"indian">>, <<"curry">>}],
      [name |-> "mexican", keywords |-> {<<"mexican">>, <<"taco">>, <<"burrito">>}],
      [name |-> "korean", keywords |-> {<<"korean">>, <<"kimchi">>, <<"bibimbap">>}],
      [name |-> "vietnamese", keywords |-> {<<"vietnamese">>, <<"pho">>}],
      [name |-> "american", keywords |-> {<<"american">>, <<"burger">>}],
      [name |-> "french", keywords |-> {<<"french">>}],
      [name |-> "greek", keywords |-> {<<"greek">>}],
      [name |-> "mediterranean", keywords |-> {<<"mediterranean">>}],
      [name |-> "middle eastern",
       keywords |-> {<<"middle", "eastern">>, <<"falafel">>, <<"shawarma">>}],
      [name |-> "spanish", keywords |-> {<<"spanish">>, <<"tapas">>, <<"paella">>}]>>

\* extract_cuisine_from_query: the first cuisine of the dict with a keyword
\* that is in the lower-cased query as whole words, or None.
extract_cuisine_from_query(query) ==
    LET found == {c \in DOMAIN cuisines :
                     \E keyword \in cuisines[c].keywords :
                         Contains(lower(query), keyword)} IN
    IF found = {} THEN NoCuisine ELSE cuisines[Least(found)].name

\* The words \bveg(etarian)? followed by a space matches in: the pattern
\* also starts behind the hyphen of non-veg.
VegWords == {"veg", "vegetarian", "non-veg", "non-vegetarian"}

NonVegWords == {"non-veg", "nonveg", "non-vegetarian", "nonvegetarian"}

\* Words that start with food, dish, meal, option, restaurant or cuisine.
DietNouns ==
    {"food", "foods", "dish", "dishes", "meal", "meals", "option",
     "options", "restaurant", "restaurants", "cuisine", "cuisines"}

\* Is the word at i, or the one after it, a diet noun.
DietNounNear(text, i) ==
    \/ (i \in DOMAIN text /\ text[i] \in DietNouns)
    \/ (i + 1 \in DOMAIN text /\ text[i] # "," /\ text[i + 1] \in DietNouns)

VegPrefixed(word) == Len(word) >= 3 /\ SubSeq(word, 1, 3) = "veg"

\* The veg_patterns: "veg [word] food", "only veg", "pure veg", "vegetarian
\* only", "no meat", "plant based".
ExplicitVeg(text) ==
    \/ \E i \in DOMAIN text : text[i] \in VegWords /\ DietNounNear(text, i + 1)
    \/ \E i \in DOMAIN text :
          /\ text[i] \in {"only", "pure"}
          /\ i + 1 \in DOMAIN text
          /\ VegPrefixed(text[i + 1])
    \/ Contains(text, <<"vegetarian", "only">>)
    \/ \E i \in DOMAIN text :
          /\ text[i] = "no"
          /\ i + 1 \in DOMAIN text
          /\ text[i + 1] \in {"meat", "non-veg", "nonveg"}
    \/ Contains(text, <<"plant", "based">>)
    \/ \E i \in DOMAIN text : text[i] \in {"plant-based", "plantbased"}

\* The nonveg_patterns: "non-veg [word] food", "meat lover", "only non-veg".
ExplicitNonVeg(text) ==
    \/ \E i \in DOMAIN text :
          text[i] \in NonVegWords /\ DietNounNear(text, i + 1)
    \/ \E i \in DOMAIN text :
          /\ text[i] \in {"meat", "chicken", "fish", "seafood"}
          /\ i + 1 \in DOMAIN text
          /\ text[i + 1] \in {"lover", "lovers", "eater", "eaters"}
    \/ \E i \in DOMAIN text :
          /\ text[i] = "only"
          /\ i + 1 \in DOMAIN text
          /\ text[i + 1] \in NonVegWords

\* extract_diet_from_query: an explicit preference, veg patterns first;
\* else, when the query names a dish ("I want X"), the classification of
\* the dish by classify_dish_diet_with_groq; else None.
extract_diet_from_query(query, classification) ==
    IF ExplicitVeg(lower(query)) THEN "veg"
    ELSE IF ExplicitNonVeg(lower(query)) THEN "non-veg"
    ELSE IF /\ is_dish_query(query) # None
            /\ ~StartsWith(lower(query), <<"i'd", "like">>)
    THEN classification
    ELSE NoDiet

\* parse_specific_query: "X where restaurant is Y" gives (X, Y).
parse_specific_query(query) ==
    LET text == lower(query)
        starts == {i \in 2..(Len(text) - 3) :
                      SubSeq(text, i, i + 2) = <<"where", "restaurant", "is">>} IN
    IF starts = {} THEN None
    ELSE LET i == Least(starts) IN
         <<SubSeq(text, 1, i - 1), SubSeq(text, i + 3, Len(text))>>

---------------------------------------------------------------------------
(* database.py: the demo user store.                                       *)

\* USER_METADATA_MAP as the module defines it (the flavor_profile of a
\* record, which the chat endpoint never reads, is left out).
InitialDemoUsers ==
    [user_key \in {"dummy2", "default", "dummy3"} |->
        CASE user_key = "dummy2" ->
               [location |-> <<"Chicago">>,
                allergies |-> <<"Nuts", "Cabbage", "Cauliflower">>,
                favorite_dishes |-> <<"Paneer butter masala",
                                      "Veg Manchurian", "Peppy Paneer Pizza">>,
                diet_type |-> "veg", pending_query |-> None]
          [] user_key = "default" ->
               [location |-> <<"New", "York", ",", "NY">>,
                allergies |-> <<"shellfish">>,
                favorite_dishes |-> <<"Pepperoni Pizza", "Chicken Wings",
                                      "Cheesecake">>,
                diet_type |-> "non-veg", pending_query |-> None]
          [] OTHER ->
               [location |-> <<"San", "Francisco", ",", "CA">>,
                allergies |-> <<"gluten">>,
                favorite_dishes |-> <<"Spicy Tuna Roll", "Tonkotsu Ramen",
                                      "Mango Mochi">>,
                diet_type |-> "mix", pending_query |-> None]]

\* The record get_dummy_user creates for a key the map does not have.
NewDemoUser ==
    [location |-> <<>>, allergies |-> <<>>, favorite_dishes |-> <<>>,
     diet_type |-> "mix", pending_query |-> None]

get_dummy_user_WithHome(map, user_key) ==
    IF user_key \in DOMAIN map THEN map
    ELSE [k \in DOMAIN map \cup {user_key} |->
             IF k = user_key
             THEN [NewDemoUser EXCEPT !.location = <<"New", "York">>]
             ELSE map[k]]

\* get_dummy_user: the map after the call (the key's record exists).
get_dummy_user(map, user_key) ==
    IF user_key \in DOMAIN map THEN map
    ELSE [k \in DOMAIN map \cup {user_key} |->
             IF k = user_key THEN NewDemoUser ELSE map[k]]

\* (request.user_key or "default").strip() or "default"
UserKeyOf(request) ==
    IF request.user_key = "" THEN "default" ELSE request.user_key

\* hasattr(request, name) and request.<name> is not None
HasValue(request, name) ==
    name \in DOMAIN request /\ request[name] # None

\* An entry of favorite_dishes that is neither a dict nor an object with a
\* name and a category.
NotADish == "(not a dish)"

\* normalize_favorite_dishes: [] for a falsy list, else the dicts and the
\* dish objects of the list, in order.
normalize_favorite_dishes(favorite_dishes) ==
    IF ~Truthy(favorite_dishes) THEN <<>>
    ELSE SelectSeq(favorite_dishes, LAMBDA d : d # NotADish)

\* sync_dummy_user_from_request: a truthy location and a truthy diet_type
\* of the request are stored, and the allergies and the favorite_dishes of
\* a request that has these attributes with a value (a ChatRequest has
\* neither attribute).
sync_dummy_user_from_request(map, request) ==
    LET user_key == UserKeyOf(request)
        created == get_dummy_user(map, user_key) IN
    [created EXCEPT
        ![user_key].location =
            IF Truthy(request.location) THEN request.location ELSE @,
        ![user_key].allergies =
            IF HasValue(request, "allergies") THEN request.allergies ELSE @,
        ![user_key].favorite_dishes =
            IF HasValue(request, "favorite_dishes")
            THEN normalize_favorite_dishes(request.favorite_dishes) ELSE @,
        ![user_key].diet_type =
            IF request.diet_type # "" THEN request.diet_type ELSE @]

update_dummy_user_StoreNulls(map, user_key, data) ==
    LET created == get_dummy_user(map, user_key) IN
    [created EXCEPT
        ![user_key].location = data.location,
        ![user_key].allergies = data.allergies,
        ![user_key].favorite_dishes =
            normalize_favorite_dishes(data.favorite_dishes),
        ![user_key].diet_type = data.diet_type]

\* update_dummy_user: each of the four fields is stored when data.get of it
\* is not None (a key the dict lacks reads as None).
update_dummy_user(map, user_key, data) ==
    LET created == get_dummy_user(map, user_key) IN
    [created EXCEPT
        ![user_key].location =
            IF data.location # None THEN data.location ELSE @,
        ![user_key].allergies =
            IF data.allergies # None THEN data.allergies ELSE @,
        ![user_key].favorite_dishes =
            IF data.favorite_dishes # None
            THEN normalize_favorite_dishes(data.favorite_dishes) ELSE @,
        ![user_key].diet_type =
            IF data.diet_type # NoDiet THEN data.diet_type ELSE @]

\* The incoming values of a request, None for an attribute it lacks.
IncomingOf(request) ==
    [location |-> request.location,
     allergies |-> IF "allergies" \in DOMAIN request
                   THEN request.allergies ELSE None,
     favorite_dishes |-> IF "favorite_dishes" \in DOMAIN request
                         THEN request.favorite_dishes ELSE None,
     diet_type |-> IF request.diet_type = "" THEN NoDiet
                   ELSE request.diet_type]

---------------------------------------------------------------------------
(* The queries of the chat requests.                                       *)

QHello == <<"hello">>
QMuseum == <<"museum", "tour">>
QMenu == <<"menu", "of", "luigis">>
QDish == <<"i", "want", "ramen">>
QSpecific == <<"ramen", "where", "restaurant", "is", "luigis">>
QPizza == <<"best", "Pizza">>
QPizzaInBoston == <<"pizza", "in", "Boston">>
QBoston == <<"Boston">>
QPizzaDowntown == <<"pizza", "in", "downtown">>
QVegThai == <<"vegetarian", "thai", "food">>

Queries ==
    {<<>>, QHello, QMuseum, QMenu, QDish, QSpecific, QPizza, QPizzaInBoston,
     QBoston, QPizzaDowntown, QVegThai}

\* What classify_dish_diet_with_groq answers for a dish.
DishDiets == {"veg", "non-veg"}

\* What the parsers make of each query, computed once.
Parsed ==
    [q \in Queries |->
        [location |-> extract_location_from_query(q),
         greeting |-> is_greeting(q),
         relevant |-> [llm \in LlmOutcomes |-> is_relevant_query(q, llm)],
         restaurant_menu |-> is_restaurant_menu_query(q),
         dish |-> is_dish_query(q),
         where_restaurant_is |->
             Contains(lower(q), <<"where", "restaurant", "is">>),
         specific |-> parse_specific_query(q),
         cuisine |-> extract_cuisine_from_query(q),
         diet |-> [classification \in DishDiets |->
                      extract_diet_from_query(q, classification)]]]

---------------------------------------------------------------------------
(* routes/chat.py: chat_endpoint.                                          *)

\* The vector store in the ranking of the general stage: the index or the
\* embedding cannot be had (raised before location_to_filter is bound),
\* the query or the ranking raises later, nothing is ranked, or something.
SearchOutcomes == {"down", "error", "empty", "hit"}

\* The agent orchestrator answers or raises, or the strands framework
\* cannot be imported (degraded mode).
AgentOutcomes == {"ok", "down", "degraded"}

\* orchestrator.STRANDS_AVAILABLE: the import of strands succeeded.
STRANDS_AVAILABLE(agent) == agent # "degraded"

\* chat.AGENTS_AVAILABLE: agents.orchestrator was imported. The module
\* catches the ImportError of strands itself and defines process_query
\* either way, so the import succeeds in degraded mode too.
AGENTS_AVAILABLE(agent) == TRUE

\* orchestrator.process_query: the fixed text without strands, else the
\* orchestrator's answer, or an exception.
process_query(agent) ==
    IF ~STRANDS_AVAILABLE(agent) THEN "agent_unavailable"
    ELSE IF agent = "ok" THEN "agent" ELSE "raise"

\* The agent fallback of a stage answers with the text of process_query.
AgentAnswers(agent) ==
    AGENTS_AVAILABLE(agent) /\ process_query(agent) # "raise"

\* request.location after the location of the query has overridden it; a
\* generic location is completed with the stored city.
RequestLocation(request, query_location, user_db_location) ==
    IF query_location = None THEN request.location
    ELSE IF (\E generic \in generic_locations :
                Contains(query_location, generic))
            /\ Truthy(user_db_location)
         THEN query_location \o <<",">> \o user_db_location
         ELSE query_location

ChatReturn(stage, kind, status, recommendations) ==
    [stage |-> stage, kind |-> kind, status |-> status,
     recommendations |-> recommendations]

\* get_embedding_model returns the OpenAI client, and the client has no
\* encode method: model.encode(...) raises AttributeError.
get_embedding_model == "OpenAI"

Encodes(model) == model # "OpenAI"

\* The stages of chat_endpoint after the location handling, in order:
\* greeting, relevance, restaurant menu (no exception handler around the
\* store lookup and model.encode), dish (a failed or empty lookup, and
\* the failing model.encode, fall through to the next stage), dish at a
\* restaurant (a failed lookup falls through), the location question, the
\* ranking, the agent fallback and the no-results message (which reads
\* location_to_filter). stage is where the turn ends, "general" from the
\* location question on; recommendations is "absent" when the response
\* has no menu_buddy key.
ChatStages(parsed, is_first_turn, fallback_location, lookup, search, llm, agent) ==
    IF parsed.greeting THEN ChatReturn("greeting", "greeting", 200, "empty")
    ELSE IF ~parsed.relevant[llm]
    THEN ChatReturn("relevance", "off_topic", 200, "empty")
    ELSE IF parsed.restaurant_menu # None
    THEN IF lookup = "down" \/ ~Encodes(get_embedding_model)
         THEN ChatReturn("menu", "error", 500, "absent")
         ELSE IF lookup = "hit" THEN ChatReturn("menu", "menu", 200, "some")
         ELSE IF AgentAnswers(agent)
         THEN ChatReturn("menu", process_query(agent), 200, "empty")
         ELSE ChatReturn("menu", "not_found", 200, "empty")
    ELSE IF /\ parsed.dish # None
            /\ ~parsed.where_restaurant_is
            /\ lookup = "hit"
            /\ Encodes(get_embedding_model)
    THEN ChatReturn("dish", "dish", 200, "some")
    ELSE IF parsed.specific # None /\ lookup # "down"
    THEN IF lookup = "hit"
         THEN ChatReturn("specific", "specific", 200, "some")
         ELSE IF AgentAnswers(agent)
         THEN ChatReturn("specific", process_query(agent), 200, "empty")
         ELSE ChatReturn("specific", "not_found", 200, "empty")
    ELSE IF is_first_turn /\ ~Truthy(fallback_location)
    THEN ChatReturn("general", "ask_location", 200, "absent")
    ELSE IF search = "hit"
    THEN ChatReturn("general", "recommendations", 200, "some")
    ELSE IF AgentAnswers(agent)
    THEN ChatReturn("general", process_query(agent), 200, "empty")
    ELSE IF search = "down" THEN ChatReturn("general", "error", 500, "absent")
    ELSE ChatReturn("general", "no_results", 200, "empty")

\* location_to_filter of the ranking: the location of the query as
\* extracted, else fallback_location.
LocationToFilter(query_location, fallback_location) ==
    IF Truthy(query_location) THEN query_location ELSE fallback_location

ChatReply(request, out, query, location) ==
    [op |-> "chat_endpoint", request |-> request, status |-> out.status,
     stage |-> out.stage, kind |-> out.kind,
     recommendations |-> out.recommendations,
     query |-> query, location |-> location,
     location_to_filter |->
         LocationToFilter(Parsed[request.query].location, location)]

\* The pending-query swap: a first turn with a pending query, a query and
\* no location takes the query as the location and the pending query as
\* the query, saves the location and clears the pending query.
PendingQuerySwap(request, synced, located) ==
    LET user_key == UserKeyOf(request)
        pending_query == synced[user_key].pending_query IN
    IF /\ ~Truthy(request.chat_id)
       /\ Truthy(pending_query)
       /\ Truthy(request.query)
       /\ ~Truthy(located)
    THEN [query |-> pending_query, location |-> request.query,
          map |-> [synced EXCEPT ![user_key].location = request.query,
                                 ![user_key].pending_query = None]]
    ELSE [query |-> request.query, location |-> located, map |-> synced]

\* diet_type of the turn: the stored diet of the record or "mix", overridden
\* by the diet the query states.
DietOfTurn(stored, query_diet) ==
    IF query_diet # NoDiet THEN query_diet
    ELSE IF stored # "" THEN stored ELSE "mix"

\* The locals of the handler after the swap: diet_type and query_cuisine
\* were bound before it, from the query of the request.
WithQueryFilters(turn, diet_type, query_cuisine) ==
    [query |-> turn.query, location |-> turn.location, map |-> turn.map,
     diet_type |-> diet_type, query_cuisine |-> query_cuisine]

\* The response with the diet_type and the cuisine_filter the ranking is
\* called with.
WithSearchArguments(reply, diet_type, query_cuisine) ==
    [f \in DOMAIN reply \cup {"diet_type", "cuisine_filter"} |->
        IF f = "diet_type" THEN diet_type
        ELSE IF f = "cuisine_filter" THEN query_cuisine
        ELSE reply[f]]

\* fallback_location: request.location, else the stored location.
FallbackLocation(location, user_db_location) ==
    IF ~Truthy(location) /\ Truthy(user_db_location)
    THEN user_db_location ELSE location

\* The response and the demo store at the end of the turn: the location
\* question stores the query as pending_query.
ChatTurnEnd(request, turn, fallback_location, out) ==
    /\ USER_METADATA_MAP' =
          IF out.kind = "ask_location"
          THEN [turn.map EXCEPT ![UserKeyOf(request)].pending_query = turn.query]
          ELSE turn.map
    /\ resp' = WithSearchArguments(
                   ChatReply(request, out, turn.query, fallback_location),
                   turn.diet_type, turn.query_cuisine)

ChatTurnStages(request, turn, fallback_location, lookup, search, llm, agent) ==
    ChatTurnEnd(request, turn, fallback_location,
                ChatStages(Parsed[turn.query], ~Truthy(request.chat_id),
                           fallback_location, lookup, search, llm, agent))

ChatTurnAfterSwap(request, turn, lookup, search, llm, agent) ==
    ChatTurnStages(request, turn,
                   FallbackLocation(turn.location,
                                    turn.map[UserKeyOf(request)].location),
                   lookup, search, llm, agent)

ChatTurnAfterSync(request, synced, lookup, search, llm, agent, classification) ==
    ChatTurnAfterSwap(
        request,
        WithQueryFilters(
            PendingQuerySwap(request, synced,
                             RequestLocation(request,
                                             Parsed[request.query].location,
                                             synced[UserKeyOf(request)].location)),
            DietOfTurn(synced[UserKeyOf(request)].diet_type,
                       Parsed[request.query].diet[classification]),
            Parsed[request.query].cuisine),
        lookup, search, llm, agent)

\* chat_endpoint: 500 without the LLM key; else the request is synced into
\* the demo record, the location of the query overrides request.location,
\* the pending-query swap is made, and the stages run.
chat_endpoint(request, lookup, search, llm, agent, classification) ==
    /\ IF ~GROQ_API_KEY
       THEN /\ resp' = WithSearchArguments(
                           ChatReply(request,
                                     ChatReturn("config", "error", 500, "absent"),
                                     request.query, request.location),
                           NoDiet, NoCuisine)
            /\ UNCHANGED USER_METADATA_MAP
       ELSE ChatTurnAfterSync(
                request,
                sync_dummy_user_from_request(USER_METADATA_MAP, request),
                lookup, search, llm, agent, classification)
    /\ UNCHANGED <<GROQ_API_KEY, tool_call, moduleVars>>
    /\ UNCHANGED dbVars

---------------------------------------------------------------------------
(* Strings compared character by character.                                *)

\* needle in text, for strings
StrContains(needle, text) ==
    \E i \in 0..(Len(text) - Len(needle)) :
        SubSeq(text, i + 1, i + Len(needle)) = needle

CharAt(text, i) == IF i \in 1..Len(text) THEN SubSeq(text, i, i) ELSE ""

UpperLetters == "ABCDEFGHIJKLMNOPQRSTUVWXYZ"
LowerLetters == "abcdefghijklmnopqrstuvwxyz"

\* The lower-case letter of each upper-case letter.
UpperToLower ==
    [c \in {CharAt(UpperLetters, k) : k \in 1..26} |->
        CharAt(LowerLetters, CHOOSE k \in 1..26 : CharAt(UpperLetters, k) = c)]

IsUpper(c) == c \in DOMAIN UpperToLower

LowerChar(c) == IF IsUpper(c) THEN UpperToLower[c] ELSE c

RECURSIVE StrLower(_)
\* str.lower
StrLower(text) ==
    IF Len(text) = 0 THEN ""
    ELSE LowerChar(CharAt(text, 1)) \o StrLower(SubSeq(text, 2, Len(text)))

RECURSIVE StrStrip(_)
\* str.strip
StrStrip(text) ==
    IF Len(text) = 0 THEN ""
    ELSE IF CharAt(text, 1) = " " THEN StrStrip(SubSeq(text, 2, Len(text)))
    ELSE IF CharAt(text, Len(text)) = " "
         THEN StrStrip(SubSeq(text, 1, Len(text) - 1))
    ELSE text

---------------------------------------------------------------------------
(* services/restaurant_service.py and agents/tools/allergy_tools.py: the   *)
(* allergy filters. Dish names and allergens are strings.                  *)

RECURSIVE Join(_)
\* " ".join(items)
Join(items) ==
    IF items = <<>> THEN ""
    ELSE IF Len(items) = 1 THEN items[1]
    ELSE items[1] \o " " \o Join(Tail(items))

\* allergy_filter: no allergen is a substring of the joined, lower-cased
\* menu items.
allergy_filter(menu_items, allergies) ==
    LET menu_text == StrLower(Join(menu_items)) IN
    \A k \in DOMAIN allergies :
        ~StrContains(StrLower(allergies[k]), menu_text)

\* What iterating a str yields: its letters, each a str.
Letters(dish) == [i \in 1..Len(dish) |-> CharAt(dish, i)]

RECURSIVE DishesAt(_, _)
\* The dishes the numbers of the LLM's answer name; a number outside the
\* list is skipped.
DishesAt(dishes, numbers) ==
    IF numbers = <<>> THEN <<>>
    ELSE IF numbers[1] \in DOMAIN dishes
         THEN <<dishes[numbers[1]]>> \o DishesAt(dishes, Tail(numbers))
         ELSE DishesAt(dishes, Tail(numbers))

\* The LLM call of filter_dishes_by_allergy raised.
LlmDown == <<0>>

\* filter_dishes_by_allergy: the dishes the LLM's numbers name; when the
\* call raises, the dishes that pass allergy_filter called with the dish
\* name itself, a str, as the menu items.
filter_dishes_by_allergy(dishes, allergies, llm_answer) ==
    IF dishes = <<>> \/ allergies = <<>> THEN dishes
    ELSE IF llm_answer = LlmDown
    THEN LET Keep(d) == allergy_filter(Letters(d), allergies) IN
         SelectSeq(dishes, Keep)
    ELSE DishesAt(dishes, llm_answer)

Range(s) == {s[i] : i \in DOMAIN s}

\* The keyword-safe dishes of the hybrid filter.
keyword_safe(dishes, allergies) ==
    LET Keep(d) == allergy_filter(<<d>>, allergies) IN
    SelectSeq(dishes, Keep)

HybridResult(safe_dishes, method) ==
    [safe_dishes |-> safe_dishes, method |-> method]

filter_dishes_by_allergy_hybrid_NoFallback(dishes, allergies, llm_answer) ==
    IF dishes = <<>> \/ allergies = <<>>
    THEN HybridResult(Range(dishes), "none")
    ELSE HybridResult(Range(keyword_safe(dishes, allergies))
                         \cap Range(filter_dishes_by_allergy(dishes, allergies,
                                                             llm_answer)),
                      "intersection")

\* filter_dishes_by_allergy_hybrid: the set of safe dishes it reports (the
\* order of list(set) is unspecified) and the method.
filter_dishes_by_allergy_hybrid(dishes, allergies, llm_answer) ==
    IF dishes = <<>> \/ allergies = <<>>
    THEN HybridResult(Range(dishes), "none")
    ELSE LET keyword_set == Range(keyword_safe(dishes, allergies))
             ai_safe == filter_dishes_by_allergy(dishes, allergies, llm_answer)
             intersection_safe == keyword_set \cap Range(ai_safe) IN
         IF intersection_safe = {} /\ Len(ai_safe) > 0
         THEN HybridResult(Range(ai_safe), "ai_fallback")
         ELSE HybridResult(intersection_safe, "intersection")

NoCall == [tool |-> "none"]
NoResult == HybridResult({}, "pending")

\* One call of the tool with the arguments and the LLM answer drawn at the
\* start.
call_filter_dishes_by_allergy_hybrid ==
    /\ tool_call.tool = "filter_dishes_by_allergy_hybrid"
    /\ tool_call.result = NoResult
    /\ tool_call' =
          [tool_call EXCEPT !.result =
              filter_dishes_by_allergy_hybrid(tool_call.dishes,
                                              tool_call.allergies,
                                              tool_call.llm_answer)]
    /\ UNCHANGED <<USER_METADATA_MAP, GROQ_API_KEY, resp, moduleVars>>
    /\ UNCHANGED dbVars

\* One call of filter_dishes_by_allergy itself; the result is the list it
\* returns.
call_filter_dishes_by_allergy ==
    /\ tool_call.tool = "filter_dishes_by_allergy"
    /\ tool_call.result = NoResult
    /\ tool_call' =
          [tool_call EXCEPT !.result =
              [safe_dishes |-> filter_dishes_by_allergy(tool_call.dishes,
                                                        tool_call.allergies,
                                                        tool_call.llm_answer)]]
    /\ UNCHANGED <<USER_METADATA_MAP, GROQ_API_KEY, resp, moduleVars>>
    /\ UNCHANGED dbVars

---------------------------------------------------------------------------
(* services/restaurant_service.py: check_location_match. Locations are     *)
(* strings, compared character by character.                               *)

\* text.split(',')[0]
BeforeComma(text) ==
    LET commas == {i \in 1..Len(text) : CharAt(text, i) = ","} IN
    IF commas = {} THEN text ELSE SubSeq(text, 1, Least(commas) - 1)

\* \w of a regular expression
IsWordChar(c) ==
    \/ IsUpper(c)
    \/ \E k \in 1..26 : CharAt(LowerLetters, k) = c
    \/ \E k \in 1..11 : CharAt("0123456789_", k) = c

\* \b between the characters i and i + 1 of the text
WordBoundary(text, i) ==
    IsWordChar(CharAt(text, i)) # IsWordChar(CharAt(text, i + 1))

\* re.search(r'\b' + re.escape(word) + r'\b', text)
SearchWholeWord(word, text) ==
    \E i \in 0..(Len(text) - Len(word)) :
        /\ SubSeq(text, i + 1, i + Len(word)) = word
        /\ WordBoundary(text, i)
        /\ WordBoundary(text, i + Len(word))

us_indicators == {", us", "united states", ", ny", ", ca", ", tx", ", fl"}

non_us_countries ==
    {"mexico", "canada", "uk", "france", "italy", "spain", "india", "china",
     "japan"}

\* city_regions, in the order of the dict
city_regions ==
    << <<"san francisco", "bay_area">>, <<"san jose", "bay_area">>,
       <<"oakland", "bay_area">>, <<"berkeley", "bay_area">>,
       <<"palo alto", "bay_area">>, <<"mountain view", "bay_area">>,
       <<"sunnyvale", "bay_area">>, <<"new york", "nyc_metro">>,
       <<"brooklyn", "nyc_metro">>, <<"manhattan", "nyc_metro">>,
       <<"queens", "nyc_metro">>, <<"bronx", "nyc_metro">>,
       <<"staten island", "nyc_metro">>, <<"los angeles", "la">>,
       <<"chicago", "chicago">>, <<"boston", "boston">>,
       <<"seattle", "seattle">>, <<"portland", "portland">>,
       <<"austin", "austin">>, <<"miami", "miami">>,
       <<"atlanta", "atlanta">> >>

\* The region of the last city of city_regions found in the location, or
\* "" (None).
RegionOf(loc) ==
    LET found == {k \in DOMAIN city_regions :
                     StrContains(city_regions[k][1], loc)} IN
    IF found = {} THEN ""
    ELSE city_regions[CHOOSE k \in found : \A j \in found : j <= k][2]

\* The end of \s* from position i on.
SkipSpaces(text, i) ==
    Least({j \in i..(Len(text) + 1) : CharAt(text, j) # " "})

\* re.search(r',\s*([A-Z]{2})\b', location): group(1) of the first match,
\* or "" (None).
StateCode(location) ==
    LET matches ==
            {i \in 1..Len(location) :
                LET j == SkipSpaces(location, i + 1) IN
                /\ CharAt(location, i) = ","
                /\ IsUpper(CharAt(location, j))
                /\ IsUpper(CharAt(location, j + 1))
                /\ WordBoundary(location, j + 1)} IN
    IF matches = {} THEN ""
    ELSE LET j == SkipSpaces(location, Least(matches) + 1) IN
         SubSeq(location, j, j + 1)

LocationResult(match, llm_called) == [match |-> match, llm_called |-> llm_called]

\* check_location_match: the fast paths in order, then the LLM; when the
\* LLM call raises the function returns None. llm is the LLM's outcome.
check_location_match(user_location, restaurant_location, llm) ==
    LET u_loc == StrStrip(StrLower(user_location))
        r_loc == StrStrip(StrLower(restaurant_location))
        u_city == StrStrip(BeforeComma(u_loc))
        u_has_us == \E ind \in us_indicators : StrContains(ind, r_loc)
        u_has_non_us == \E country \in non_us_countries :
                            StrContains(country, u_loc)
        r_has_us == \E ind \in us_indicators : StrContains(ind, r_loc)
        r_has_non_us == \E country \in non_us_countries :
                            StrContains(country, r_loc)
        user_region == RegionOf(u_loc)
        restaurant_region == RegionOf(r_loc)
        user_state == StateCode(user_location)
        rest_state == StateCode(restaurant_location) IN
    IF user_location = "" \/ restaurant_location = ""
    THEN LocationResult(FALSE, FALSE)
    ELSE IF /\ u_city # ""
            /\ StrContains(u_city, r_loc)
            /\ SearchWholeWord(u_city, r_loc)
    THEN LocationResult(TRUE, FALSE)
    ELSE IF (u_has_non_us /\ r_has_us) \/ (u_has_us /\ r_has_non_us)
    THEN LocationResult(FALSE, FALSE)
    ELSE IF user_region # "" /\ restaurant_region # ""
    THEN LocationResult(user_region = restaurant_region, FALSE)
    ELSE IF user_state # "" /\ rest_state # "" /\ user_state # rest_state
    THEN LocationResult(FALSE, FALSE)
    ELSE LocationResult(llm = "yes", TRUE)

\* One call of check_location_match with the arguments and the LLM outcome
\* drawn at the start.
call_check_location_match ==
    /\ tool_call.tool = "check_location_match"
    /\ tool_call.result = NoResult
    /\ tool_call' =
          [tool_call EXCEPT !.result =
              check_location_match(tool_call.user_location,
                                   tool_call.restaurant_location,
                                   tool_call.llm)]
    /\ UNCHANGED <<USER_METADATA_MAP, GROQ_API_KEY, resp, moduleVars>>
    /\ UNCHANGED dbVars

---------------------------------------------------------------------------
(* services/restaurant_service.py: filter_dishes_by_diet. Dish names are   *)
(* strings.                                                                *)

NON_VEG_KEYWORDS ==
    {"chicken", "mutton", "lamb", "beef", "pork", "fish", "prawn", "shrimp",
     "crab", "lobster", "meat", "bacon", "sausage", "ham", "turkey", "duck",
     "egg", "eggs", "omelette", "omelet", "seafood", "salmon", "tuna"}

is_nonveg_text(text) ==
    LET text_lower == StrLower(text) IN
    \E keyword \in NON_VEG_KEYWORDS : StrContains(keyword, text_lower)

\* filter_dishes_by_diet with every dish kept: the veg and non-veg branches
\* removed.
filter_dishes_by_diet_KeepAll(dishes, diet_type) == dishes

\* filter_dishes_by_diet; diet_type "" stands for None.
filter_dishes_by_diet(dishes, diet_type) ==
    LET IsVeg(d) == ~is_nonveg_text(d)
        IsNonVeg(d) == is_nonveg_text(d) IN
    IF dishes = <<>> THEN <<>>
    ELSE IF diet_type = "" \/ diet_type \in {"mix", "any", "all"} THEN dishes
    ELSE IF diet_type \in {"veg", "vegetarian"} THEN SelectSeq(dishes, IsVeg)
    ELSE IF diet_type \in {"non-veg", "nonveg", "non_veg"}
    THEN SelectSeq(dishes, IsNonVeg)
    ELSE dishes

\* One call of filter_dishes_by_diet with the arguments drawn at the start.
call_filter_dishes_by_diet ==
    /\ tool_call.tool = "filter_dishes_by_diet"
    /\ tool_call.result = NoResult
    /\ tool_call' =
          [tool_call EXCEPT !.result =
              [dishes |-> filter_dishes_by_diet(tool_call.dishes,
                                                tool_call.diet_type)]]
    /\ UNCHANGED <<USER_METADATA_MAP, GROQ_API_KEY, resp, moduleVars>>
    /\ UNCHANGED dbVars

---------------------------------------------------------------------------
(* services/recommendation_service.py: dish_recommendations_for_restaurant.*)
(* A taste vector is a sequence of integers; a similarity is kept as the   *)
(* percentage times ten (500 is 50.0).                                     *)

RECURSIVE Sum(_)
Sum(vec) == IF vec = <<>> THEN 0 ELSE Head(vec) + Sum(Tail(vec))

Abs(x) == IF x < 0 THEN 0 - x ELSE x

Dot(u, v) == Sum([i \in DOMAIN u |-> u[i] * v[i]])

\* round(x * 100, 1) times ten, for x = dot / sqrt(norms) with norms > 0.
RoundedPerMille(dot, norms) ==
    LET r == CHOOSE r \in 0..1000 :
                 /\ r = 0 \/ (2 * r - 1) * (2 * r - 1) * norms
                                <= 4000000 * dot * dot
                 /\ 4000000 * dot * dot < (2 * r + 1) * (2 * r + 1) * norms IN
    IF dot < 0 THEN 0 - r ELSE r

\* round(calculate_cosine_similarity(vec1, vec2) * 100, 1) times ten: 0.0
\* for an empty vector, and sklearn's cosine_similarity gives 0 when a
\* vector has norm 0.
CosinePerMille(vec1, vec2) ==
    IF vec1 = <<>> \/ vec2 = <<>> THEN 0
    ELSE IF Dot(vec1, vec1) * Dot(vec2, vec2) = 0 THEN 0
    ELSE RoundedPerMille(Dot(vec1, vec2), Dot(vec1, vec1) * Dot(vec2, vec2))

\* The similarity without the handling of zero vectors.
DishSimilarity_CosineOnly(user_taste_vec, dish_taste_vec) ==
    CosinePerMille(user_taste_vec, dish_taste_vec)

\* The similarity of one dish: 0.5 when the absolute values of the user's
\* or of the dish's vector sum to 0, else the cosine.
DishSimilarity(user_taste_vec, dish_taste_vec) ==
    LET user_sum == Sum([i \in DOMAIN user_taste_vec |-> Abs(user_taste_vec[i])])
        dish_sum == Sum([i \in DOMAIN dish_taste_vec |-> Abs(dish_taste_vec[i])]) IN
    IF user_sum = 0 \/ dish_sum = 0 THEN 500
    ELSE CosinePerMille(user_taste_vec, dish_taste_vec)

RECURSIVE InsertBySimilarity(_, _)
\* Insertion behind the scores that are not smaller: the stable sort with
\* reverse=True.
InsertBySimilarity(score, sorted) ==
    IF sorted = <<>> THEN <<score>>
    ELSE IF Head(sorted).similarity >= score.similarity
         THEN <<Head(sorted)>> \o InsertBySimilarity(score, Tail(sorted))
         ELSE <<score>> \o sorted

RECURSIVE SortBySimilarity(_)
SortBySimilarity(scores) ==
    IF scores = <<>> THEN <<>>
    ELSE InsertBySimilarity(scores[Len(scores)],
                            SortBySimilarity(SubSeq(scores, 1, Len(scores) - 1)))

\* A menu item without a stored taste vector (a str, or a dict whose taste
\* is None or empty).
NoTaste == <<>>

\* dish_recommendations_for_restaurant: the diet filter, the allergy filter
\* when there are allergies, the similarity of every dish whose name is
\* left (with its stored vector, else the inferred one), sorted by
\* similarity, the top_n first. inferred is what
\* infer_taste_from_text_hybrid gives for each name.
dish_recommendations_for_restaurant(menu_items, user_taste_vec, diet_type, allergies, top_n, llm_answer, inferred) ==
    LET dish_names == [i \in DOMAIN menu_items |-> menu_items[i].name]
        by_diet == filter_dishes_by_diet(dish_names, diet_type)
        filtered_names ==
            IF allergies # <<>>
            THEN filter_dishes_by_allergy(by_diet, allergies, llm_answer)
            ELSE by_diet
        Kept(dish) == \E i \in DOMAIN filtered_names :
                          filtered_names[i] = dish.name
        kept == SelectSeq(menu_items, Kept)
        dish_scores ==
            [i \in DOMAIN kept |->
                [name |-> kept[i].name,
                 similarity |->
                     DishSimilarity(user_taste_vec,
                                    IF kept[i].taste # NoTaste
                                    THEN kept[i].taste
                                    ELSE inferred[kept[i].name])]]
        sorted == SortBySimilarity(dish_scores) IN
    IF menu_items = <<>> \/ filtered_names = <<>> THEN <<>>
    ELSE SubSeq(sorted, 1, IF Len(sorted) < top_n THEN Len(sorted) ELSE top_n)

\* One call of dish_recommendations_for_restaurant with the arguments, the
\* LLM's answer and the inferred vectors drawn at the start.
call_dish_recommendations_for_restaurant ==
    /\ tool_call.tool = "dish_recommendations_for_restaurant"
    /\ tool_call.result = NoResult
    /\ tool_call' =
          [tool_call EXCEPT !.result =
              [dishes |-> dish_recommendations_for_restaurant(
                              tool_call.menu_items, tool_call.user_taste_vec,
                              tool_call.diet_type, tool_call.allergies,
                              tool_call.top_n, tool_call.llm_answer,
                              tool_call.inferred)]]
    /\ UNCHANGED <<USER_METADATA_MAP, GROQ_API_KEY, resp, moduleVars>>
    /\ UNCHANGED dbVars

---------------------------------------------------------------------------
(* cognito_auth.py: get_jwks and its cache. The clock counts half hours.   *)

\* timedelta(hours=1), in half hours.
JWKS_CACHE_TTL == 2

\* _jwks_cache = None and _jwks_cache_time = None; a time that is set is the
\* one-element sequence of the clock's value.
NoJwks == "None"

NoTime == <<>>

\* What requests.get(JWKS_URL) and response.json() give: a key set, or an
\* exception (no answer, an error status, a body that is not JSON).
KeySets == {"keys1", "keys2"}

FetchFailed == "failed"

\* The condition of get_jwks without the expiry of the cache.
MustFetch_NeverExpires(cache, cache_time, now) ==
    cache = NoJwks \/ cache_time = NoTime

\* The condition under which get_jwks fetches.
MustFetch(cache, cache_time, now) ==
    \/ cache = NoJwks
    \/ cache_time = NoTime
    \/ now - cache_time[1] > JWKS_CACHE_TTL

\* One call of get_jwks at the clock's time; fetch is what the request
\* would give. tool_call keeps whether the call fetched, what the fetch
\* gave and what the call returned ("raise" for the exception re-raised).
get_jwks(fetch) ==
    LET now == utcnow
        fetched == MustFetch(_jwks_cache, _jwks_cache_time, now)
        stored == fetched /\ fetch # FetchFailed IN
    /\ _jwks_cache' = IF stored THEN fetch ELSE _jwks_cache
    /\ _jwks_cache_time' = IF stored THEN <<now>> ELSE _jwks_cache_time
    /\ tool_call' =
          [tool |-> "get_jwks",
           call |-> IF tool_call.tool = "get_jwks" THEN tool_call.call + 1
                    ELSE 1,
           fetched |-> fetched,
           fetch |-> IF fetched THEN fetch ELSE NoJwks,
           result |-> IF fetched /\ fetch = FetchFailed /\ _jwks_cache = NoJwks
                      THEN "raise"
                      ELSE _jwks_cache']
    /\ UNCHANGED <<USER_METADATA_MAP, GROQ_API_KEY, resp, tasks, utcnow>>
    /\ UNCHANGED <<_ingredient_upsert_done, pinecone_index>>
    /\ UNCHANGED dbVars

\* Time passes between two calls.
clock_advances(half_hours) ==
    /\ utcnow' = utcnow + half_hours
    /\ UNCHANGED <<USER_METADATA_MAP, GROQ_API_KEY, resp, tasks, tool_call,
                   _jwks_cache, _jwks_cache_time>>
    /\ UNCHANGED <<_ingredient_upsert_done, pinecone_index>>
    /\ UNCHANGED dbVars

---------------------------------------------------------------------------
(* integrations/pinecone_client.py: the ingredient bootstrap. The index is *)
(* kept as the ids of the records upserted into each namespace, with the   *)
(* number of vectors it held before.                                       *)

\* The namespaces of the index: the default one (an upsert or query that
\* names none) and the two the application names.
DefaultNamespace == ""

Namespaces == {DefaultNamespace, "ingredients", "restaurants"}

IndexWith(vectors) ==
    [records |-> [ns \in Namespaces |-> {}], preexisting |-> vectors]

\* describe_index_stats()["total_vector_count"].
total_vector_count(index) ==
    index.preexisting
      + Cardinality(index.records[DefaultNamespace])
      + Cardinality(index.records["ingredients"])
      + Cardinality(index.records["restaurants"])

\* index.upsert(vectors=..., namespace=...).
upsert(index, ids, namespace) ==
    [index EXCEPT !.records[namespace] = @ \cup ids]

\* The namespace search_dish_in_db queries.
search_dish_in_db_namespace == "ingredients"

\* The total above which the bootstrap takes the index for seeded.
SeededAbove == 100

\* batch_size of the bootstrap (100 in the code), in records.
batch_size == 1

\* ingredient-flavor.csv is missing.
NoFile == <<"(no file)">>

RECURSIVE VectorIds(_)
\* The ids of the vectors built from the rows of the file, a row with a
\* blank ingredient skipped.
VectorIds(rows) ==
    IF rows = <<>> THEN <<>>
    ELSE IF StrStrip(Head(rows)) = "" THEN VectorIds(Tail(rows))
    ELSE <<"ingredient:" \o StrStrip(Head(rows))>> \o VectorIds(Tail(rows))

\* The ids in the first batches of the vectors.
InBatches(ids, batches) ==
    {ids[i] : i \in {j \in DOMAIN ids : j <= batches * batch_size}}

BatchCount(ids) == (Len(ids) + batch_size - 1) \div batch_size

\* Whether _ingredient_upsert_done is set when the call returns on a path,
\* here never after an exception.
DoneAfter_RetryOnError(path) == path # "exception"

\* Whether _ingredient_upsert_done is set when the call returns on a path.
DoneAfter(path) == TRUE

\* The path a call takes and the index it leaves. rows is the file (NoFile
\* when missing); services_up is whether get_pinecone_index() and
\* get_embedding_model() return; encodes is whether model.encode and the
\* float conversions of a row succeed; failing_batch is the batch whose
\* upsert raises, 0 for none.
BootstrapOutcome(index, rows, services_up, encodes, failing_batch) ==
    LET ids == VectorIds(rows) IN
    IF rows = NoFile THEN [path |-> "missing", index |-> index]
    ELSE IF ~services_up THEN [path |-> "exception", index |-> index]
    ELSE IF total_vector_count(index) > SeededAbove
    THEN [path |-> "seeded", index |-> index]
    ELSE IF ids # <<>> /\ ~encodes THEN [path |-> "exception", index |-> index]
    ELSE IF failing_batch \in 1..BatchCount(ids)
    THEN [path |-> "exception",
          index |-> upsert(index, InBatches(ids, failing_batch - 1),
                           DefaultNamespace)]
    ELSE [path |-> "loaded",
          index |-> upsert(index, InBatches(ids, BatchCount(ids)),
                           DefaultNamespace)]

\* One call of maybe_upsert_ingredients_to_pinecone. tool_call keeps the
\* number of the call, the path it returned on and the file it read.
maybe_upsert_ingredients_to_pinecone(rows, services_up, encodes, failing_batch) ==
    LET out == BootstrapOutcome(pinecone_index, rows, services_up, encodes,
                                failing_batch) IN
    /\ IF _ingredient_upsert_done
       THEN /\ UNCHANGED <<_ingredient_upsert_done, pinecone_index>>
            /\ tool_call' = [tool |-> "maybe_upsert_ingredients_to_pinecone",
                             call |-> tool_call.call + 1, path |-> "done"]
       ELSE /\ _ingredient_upsert_done' = DoneAfter(out.path)
            /\ pinecone_index' = out.index
            /\ tool_call' = [tool |-> "maybe_upsert_ingredients_to_pinecone",
                             call |-> tool_call.call + 1, path |-> out.path,
                             rows |-> rows]
    /\ UNCHANGED <<USER_METADATA_MAP, GROQ_API_KEY, resp, tasks>>
    /\ UNCHANGED <<_jwks_cache, _jwks_cache_time, utcnow>>
    /\ UNCHANGED dbVars

---------------------------------------------------------------------------
(* agents/tools: the tool adapters. A call ends by returning a text or by  *)
(* raising an exception.                                                   *)

Returned(text) == [raised |-> FALSE, text |-> text]

Raised(exception) == [raised |-> TRUE, text |-> exception]

\* json.loads of the taste_vector_json argument: the keys of the object, or
\* JSONDecodeError for a text that is not JSON.
JSONDecodeError == {"(JSONDecodeError)"}

json_loads(text) ==
    CASE text = "{}" -> {}
      [] text = "{\"sweet\": 0.5}" -> {"sweet"}
      [] text = "{\"sweet\": 0.5, \"spicy\": 0.1, \"umami\": 0.7}"
            -> {"sweet", "spicy", "umami"}
      [] OTHER -> JSONDecodeError

\* recommend_beer_pairing_tool. recommender is whether get_beer_recommender
\* gives one; menu is "none" without a menu_url, else whether the menu
\* check finds beer; backend is what get_recommendations does. The
\* argument is parsed and its keys read before the try block.
recommend_beer_pairing_tool(recommender, menu, taste_vector_json, backend) ==
    LET taste_data == json_loads(taste_vector_json) IN
    IF recommender = "none" THEN Returned("Beer recommender not available")
    ELSE IF menu = "no_beer" THEN Returned("Restaurant doesn't serve beer")
    ELSE IF taste_data = JSONDecodeError THEN Raised("JSONDecodeError")
    ELSE IF ~({"sweet", "spicy", "umami"} \subseteq taste_data)
    THEN Raised("KeyError")
    ELSE IF backend = "raises" THEN Returned("Beer pairing error")
    ELSE IF backend = "recommendations" THEN Returned("Recommended pairing")
    ELSE Returned("No beer recommendation available")

\* generate_taste_vector_tool: infer_taste_from_text, which raises when the
\* ingredient table cannot be read, then infer_taste_from_groq (which
\* catches its own errors) when no keyword matched. There is no try block.
generate_taste_vector_tool(flavor_map, keyword_matched, groq) ==
    IF flavor_map = "raises" THEN Raised("ValueError")
    ELSE IF keyword_matched THEN Returned("keyword vector")
    ELSE IF groq = "ok" THEN Returned("groq vector")
    ELSE Returned("zero vector")

\* calculate_favorites_boost_tool: d.get("name") of every favorite dish; an
\* element that is not a dict has no get. There is no try block.
calculate_favorites_boost_tool(menu_items, favorite_dishes) ==
    IF \E i \in DOMAIN favorite_dishes : favorite_dishes[i] = "not a dict"
    THEN Raised("AttributeError")
    ELSE Returned("boost")

\* One call of an adapter with the arguments drawn at the start.
call_recommend_beer_pairing_tool ==
    /\ tool_call.tool = "recommend_beer_pairing_tool"
    /\ tool_call.result = NoResult
    /\ tool_call' =
          [tool_call EXCEPT !.result =
              recommend_beer_pairing_tool(tool_call.recommender,
                                          tool_call.menu,
                                          tool_call.taste_vector_json,
                                          tool_call.backend)]
    /\ UNCHANGED <<USER_METADATA_MAP, GROQ_API_KEY, resp, moduleVars>>
    /\ UNCHANGED dbVars

call_generate_taste_vector_tool ==
    /\ tool_call.tool = "generate_taste_vector_tool"
    /\ tool_call.result = NoResult
    /\ tool_call' =
          [tool_call EXCEPT !.result =
              generate_taste_vector_tool(tool_call.flavor_map,
                                         tool_call.keyword_matched,
                                         tool_call.groq)]
    /\ UNCHANGED <<USER_METADATA_MAP, GROQ_API_KEY, resp, moduleVars>>
    /\ UNCHANGED dbVars

call_calculate_favorites_boost_tool ==
    /\ tool_call.tool = "calculate_favorites_boost_tool"
    /\ tool_call.result = NoResult
    /\ tool_call' =
          [tool_call EXCEPT !.result =
              calculate_favorites_boost_tool(tool_call.menu_items,
                                             tool_call.favorite_dishes)]
    /\ UNCHANGED <<USER_METADATA_MAP, GROQ_API_KEY, resp, moduleVars>>
    /\ UNCHANGED dbVars

---------------------------------------------------------------------------
(* integrations/menu_scraper.py: MenuURLScraper.scrape_menu_url. What the  *)
(* page, the PDF text or the OCR text holds reaches the model as the lists *)
(* of texts the selectors, the headings and the LLM give.                  *)

\* The cap of the returned list (30 in the code) and the number of dishes
\* below which the next strategy of the HTML scraper runs (5 in the code).
DishCap == 2

FewDishes == 2

category_words == {"appetizers", "desserts", "menu", "pizza", "pasta"}

EndsWith(text, suffix) ==
    Len(text) >= Len(suffix)
    /\ SubSeq(text, Len(text) - Len(suffix) + 1, Len(text)) = suffix

\* _is_valid_dish_name: at least 3 characters once prices are removed, at
\* most 100, no category word. (The texts here hold no digits but "$12".)
_is_valid_dish_name(dish) ==
    LET dish_clean == IF dish = "$12" THEN "" ELSE StrStrip(dish) IN
    /\ Len(dish) >= 3
    /\ Len(dish_clean) >= 3
    /\ Len(dish_clean) <= 100
    /\ StrLower(dish_clean) \notin category_words

\* The call of the LLM raised.
NoAnswer == <<"(no answer)">>

FirstOf(list, n) == SubSeq(list, 1, IF Len(list) < n THEN Len(list) ELSE n)

\* _extract_dishes_with_ai: nothing without the client or when the call
\* fails (NoAnswer); else the valid names of the answer, capped.
_extract_dishes_with_ai(groq_client, answer) ==
    IF ~groq_client \/ answer = NoAnswer THEN <<>>
    ELSE LET valid(d) == _is_valid_dish_name(d) IN
         FirstOf(SelectSeq(answer, valid), DishCap)

RECURSIVE UniqueDishes(_, _)
\* "Remove duplicates while preserving order": the first of the dishes that
\* are equal in lower case.
UniqueDishes(dishes, seen) ==
    IF dishes = <<>> THEN <<>>
    ELSE IF StrLower(Head(dishes)) \in seen
         THEN UniqueDishes(Tail(dishes), seen)
         ELSE <<Head(dishes)>>
                 \o UniqueDishes(Tail(dishes),
                                 seen \cup {StrLower(Head(dishes))})

\* _scrape_html_menu: the three strategies, the removal of duplicates and
\* the cap; nothing when the page cannot be fetched.
_scrape_html_menu(fetched, selected, headings, groq_client, answer) ==
    LET valid(d) == _is_valid_dish_name(d)
        first == SelectSeq(selected, valid)
        second == IF Len(first) < FewDishes
                  THEN first \o SelectSeq(headings, valid) ELSE first
        third == IF Len(second) < FewDishes /\ groq_client
                 THEN second \o _extract_dishes_with_ai(groq_client, answer)
                 ELSE second IN
    IF ~fetched THEN <<>> ELSE FirstOf(UniqueDishes(third, {}), DishCap)

\* _scrape_pdf_menu and _scrape_image_menu: the answer of
\* _extract_dishes_with_ai as it is, when the file could be fetched and
\* read and has text.
_scrape_pdf_menu(fetched, has_text, groq_client, answer) ==
    IF fetched /\ groq_client /\ has_text
    THEN _extract_dishes_with_ai(groq_client, answer)
    ELSE <<>>

_scrape_image_menu(fetched, has_text, groq_client, answer) ==
    IF fetched /\ groq_client /\ has_text
    THEN _extract_dishes_with_ai(groq_client, answer)
    ELSE <<>>

\* scrape_menu_url: the handler is chosen by the end of the lower-cased URL.
scrape_menu_url(menu_url, fetched, has_text, selected, headings, groq_client, answer) ==
    LET url_lower == StrLower(menu_url) IN
    IF menu_url = "" THEN <<>>
    ELSE IF EndsWith(url_lower, ".pdf")
    THEN _scrape_pdf_menu(fetched, has_text, groq_client, answer)
    ELSE IF \E ext \in {".jpg", ".jpeg", ".png", ".gif", ".webp"} :
               EndsWith(url_lower, ext)
    THEN _scrape_image_menu(fetched, has_text, groq_client, answer)
    ELSE _scrape_html_menu(fetched, selected, headings, groq_client, answer)

\* One call of scrape_menu_url with the URL and what the page and the LLM
\* give drawn at the start.
call_scrape_menu_url ==
    /\ tool_call.tool = "scrape_menu_url"
    /\ tool_call.result = NoResult
    /\ tool_call' =
          [tool_call EXCEPT !.result =
              [dishes |-> scrape_menu_url(tool_call.menu_url,
                                          tool_call.fetched,
                                          tool_call.has_text,
                                          tool_call.selected,
                                          tool_call.headings,
                                          tool_call.groq_client,
                                          tool_call.answer)]]
    /\ UNCHANGED <<USER_METADATA_MAP, GROQ_API_KEY, resp, moduleVars>>
    /\ UNCHANGED dbVars

---------------------------------------------------------------------------
(* recipe_database.py: search_recipe_by_name. A loaded row is kept as its  *)
(* similarity_score with the dish name, in percent; 100 is the row whose   *)
(* name is the dish name. The result is the number of the row returned,    *)
(* 0 for None.                                                             *)

\* The rows the fuzzy search looks at: _recipes_list[:10000], the limit
\* scaled down to ScanLimit rows.
ScanLimit == 2

Scanned(recipes_list) ==
    SubSeq(recipes_list, 1,
           IF Len(recipes_list) < ScanLimit THEN Len(recipes_list) ELSE ScanLimit)

RECURSIVE BestMatch(_, _, _, _)
\* The loop of the fuzzy search from row k on: a row replaces the best
\* match when its score is greater than the best score so far.
BestMatch(rows, k, best_score, best_match) ==
    IF k > Len(rows) THEN best_match
    ELSE IF rows[k] > best_score
         THEN BestMatch(rows, k + 1, rows[k], k)
         ELSE BestMatch(rows, k + 1, best_score, best_match)

\* search_recipe_by_name: the row of the cache under the name (the last
\* one loaded with it), else the best match of the fuzzy search, which
\* starts with best_score = threshold.
search_recipe_by_name(recipes_list, threshold) ==
    LET exact == {k \in DOMAIN recipes_list : recipes_list[k] = 100} IN
    IF recipes_list = <<>> THEN 0
    ELSE IF exact # {}
    THEN CHOOSE k \in exact : \A j \in exact : j <= k
    ELSE BestMatch(Scanned(recipes_list), 1, threshold, 0)

\* One call of search_recipe_by_name with the loaded rows and the
\* threshold drawn at the start.
call_search_recipe_by_name ==
    /\ tool_call.tool = "search_recipe_by_name"
    /\ tool_call.result = NoResult
    /\ tool_call' =
          [tool_call EXCEPT !.result =
              [row |-> search_recipe_by_name(tool_call.recipes_list,
                                             tool_call.threshold)]]
    /\ UNCHANGED <<USER_METADATA_MAP, GROQ_API_KEY, resp, moduleVars>>
    /\ UNCHANGED dbVars

---------------------------------------------------------------------------
(* services/recommendation_service.py: filter_and_rank_recommendations.    *)
(* A match carries its metadata, the combined score the function computes  *)
(* for it (vector score, taste similarity and boosts), and the outcomes of *)
(* the LLM calls made for it.                                              *)

\* The menu of a match after the diet filter and, with allergies, the
\* allergy filter.
FilteredMenu(match, diet_type, allergies) ==
    IF filter_dishes_by_diet(match.menu_items, diet_type) = <<>>
       \/ allergies = <<>>
    THEN filter_dishes_by_diet(match.menu_items, diet_type)
    ELSE filter_dishes_by_allergy(
             filter_dishes_by_diet(match.menu_items, diet_type),
             allergies, match.llm_answer)

\* The location filter: applied when both the filter and the location of
\* the match are given.
LocationPasses(match, location_filter) ==
    \/ location_filter = ""
    \/ match.location = ""
    \/ check_location_match(location_filter, match.location, match.llm).match

\* The cuisine filter: some cuisine type contains the filter, ignoring case.
CuisinePasses(match, cuisine_filter) ==
    \/ cuisine_filter = ""
    \/ \E i \in DOMAIN match.cuisine_types :
          StrContains(StrLower(cuisine_filter),
                      StrLower(match.cuisine_types[i]))

\* Menu items given as names: dishes without a stored taste.
AsDishes(names) == [i \in DOMAIN names |-> [name |-> names[i], taste |-> NoTaste]]

\* The restaurant object of a match that passed the filters: the dishes are
\* recommended from dishes_json when the metadata has it, else from the
\* filtered menu, and in both cases without the allergies argument.
RestaurantOf(match, menu_items, user_taste_vec, diet_type, inferred) ==
    [name |-> match.name,
     menu_items |-> menu_items,
     recommended_dishes |->
         dish_recommendations_for_restaurant(
             IF match.dishes_json # <<>> THEN match.dishes_json
             ELSE AsDishes(menu_items),
             user_taste_vec, diet_type, <<>>, 5, LlmDown, inferred),
     score |-> match.combined]

RECURSIVE Ranked(_, _)
\* The loop over the matches: a match is skipped when a filter leaves no
\* dish, or its location or cuisine does not pass.
Ranked(matches, args) ==
    IF matches = <<>> THEN <<>>
    ELSE IF /\ FilteredMenu(Head(matches), args.diet_type, args.allergies)
                  # <<>>
            /\ LocationPasses(Head(matches), args.location_filter)
            /\ CuisinePasses(Head(matches), args.cuisine_filter)
         THEN <<RestaurantOf(Head(matches),
                             FilteredMenu(Head(matches), args.diet_type,
                                          args.allergies),
                             args.user_taste_vec, args.diet_type,
                             args.inferred)>>
              \o Ranked(Tail(matches), args)
         ELSE Ranked(Tail(matches), args)

RECURSIVE InsertByScore(_, _)
InsertByScore(restaurant, sorted) ==
    IF sorted = <<>> THEN <<restaurant>>
    ELSE IF Head(sorted).score >= restaurant.score
         THEN <<Head(sorted)>> \o InsertByScore(restaurant, Tail(sorted))
         ELSE <<restaurant>> \o sorted

RECURSIVE SortByScore(_)
\* ranked.sort(key=score, reverse=True): stable.
SortByScore(ranked) ==
    IF ranked = <<>> THEN <<>>
    ELSE InsertByScore(ranked[Len(ranked)],
                       SortByScore(SubSeq(ranked, 1, Len(ranked) - 1)))

\* filter_and_rank_recommendations: the restaurant objects of the matches
\* that pass, by score, the max_results first. args holds the arguments.
filter_and_rank_recommendations(matches, args) ==
    FirstOf(SortByScore(Ranked(matches, args)), args.max_results)

\* One call of filter_and_rank_recommendations with the matches and the
\* arguments drawn at the start.
call_filter_and_rank_recommendations ==
    /\ tool_call.tool = "filter_and_rank_recommendations"
    /\ tool_call.result = NoResult
    /\ tool_call' =
          [tool_call EXCEPT !.result =
              [ranked |-> filter_and_rank_recommendations(tool_call.matches,
                                                          tool_call.args)]]
    /\ UNCHANGED <<USER_METADATA_MAP, GROQ_API_KEY, resp, moduleVars>>
    /\ UNCHANGED dbVars

---------------------------------------------------------------------------
(* The demo store: calls of the two functions that write a record.         *)

\* One call of sync_dummy_user_from_request.
call_sync_dummy_user_from_request(request) ==
    /\ USER_METADATA_MAP' =
          sync_dummy_user_from_request(USER_METADATA_MAP, request)
    /\ tool_call' = [tool |-> "sync_dummy_user_from_request",
                     user_key |-> UserKeyOf(request),
                     incoming |-> IncomingOf(request)]
    /\ UNCHANGED <<GROQ_API_KEY, resp, moduleVars>>
    /\ UNCHANGED dbVars

\* One call of update_dummy_user.
call_update_dummy_user(user_key, data) ==
    /\ USER_METADATA_MAP' =
          update_dummy_user(USER_METADATA_MAP, user_key, data)
    /\ tool_call' = [tool |-> "update_dummy_user", user_key |-> user_key,
                     incoming |-> data]
    /\ UNCHANGED <<GROQ_API_KEY, resp, moduleVars>>
    /\ UNCHANGED dbVars

---------------------------------------------------------------------------
(* The database after init_db: every table empty.                          *)

InitDb ==
    /\ users = <<>>
    /\ friend_requests = <<>>
    /\ friendships = <<>>
    /\ collections = <<>>
    /\ collection_restaurants = <<>>
    /\ groups = <<>>
    /\ group_members = <<>>
    /\ resp = Reply("none", NoToken, NoToken, 0)

\* The modules after import, with no request in flight.
InitModules ==
    /\ tasks = [t \in Tasks |-> Idle]
    /\ _jwks_cache = NoJwks
    /\ _jwks_cache_time = NoTime
    /\ utcnow = 0
    /\ _ingredient_upsert_done = FALSE
    /\ pinecone_index = IndexWith(0)

\* The process after start-up, with the LLM key configured and no tool
\* call made.
InitProcess ==
    /\ USER_METADATA_MAP = InitialDemoUsers
    /\ GROQ_API_KEY = TRUE
    /\ InitModules
    /\ tool_call = NoCall

Init == InitDb /\ InitProcess

---------------------------------------------------------------------------
(* The friends routes, called by two parties.                              *)

PairTokens == Pair \cup {NoToken}

NextFriends ==
    \/ \E token \in PairTokens : sync_user(token, Claims(token))
    \/ \E token \in PairTokens, to \in Pair \cup {GhostUser} :
          /\ send_friend_request(token, to)
          /\ Len(friend_requests') <= MaxRequests
    \/ \E token \in PairTokens, rid \in 1..(Len(friend_requests) + 1) :
          accept_friend_request(token, rid)
    \/ \E token \in PairTokens, rid \in 1..(Len(friend_requests) + 1) :
          decline_friend_request(token, rid)

SpecFriends == Init /\ [][NextFriends]_vars

---------------------------------------------------------------------------
(* The collections routes.                                                 *)

NextCollections ==
    \/ \E token \in PairTokens : sync_user(token, Claims(token))
    \/ \E token \in PairTokens :
          /\ create_collection(token)
          /\ Len(collections') <= MaxCollections
    \/ \E token \in PairTokens, cid \in 1..(Len(collections) + 1),
          rid \in RestaurantIds :
          /\ add_restaurant(token, cid, rid)
          /\ Len(collection_restaurants') <= MaxSaved
    \/ \E token \in PairTokens, cid \in 1..(Len(collections) + 1),
          rid \in RestaurantIds :
          remove_restaurant(token, cid, rid)

SpecCollections == Init /\ [][NextCollections]_vars

---------------------------------------------------------------------------
(* add_restaurant requests running as concurrent tasks.                    *)

\* The collections the concurrent requests work on.
MaxTaskCollections == 1

NextConcurrentAdd ==
    \/ \E token \in PairTokens : sync_user(token, Claims(token))
    \/ \E token \in PairTokens :
          /\ create_collection(token)
          /\ Len(collections') <= MaxTaskCollections
    \/ \E t \in Tasks, token \in PairTokens,
          cid \in 1..(Len(collections) + 1), rid \in RestaurantIds :
          add_restaurant_begin(t, token, cid, rid)
    \/ \E t \in Tasks : add_restaurant_select_user(t)
    \/ \E t \in Tasks : add_restaurant_select_collection(t)
    \/ \E t \in Tasks : add_restaurant_select_existing(t)
    \/ \E t \in Tasks :
          /\ add_restaurant_commit(t)
          /\ Len(collection_restaurants') <= MaxSaved

SpecConcurrentAdd == Init /\ [][NextConcurrentAdd]_vars

---------------------------------------------------------------------------
(* The groups routes.                                                      *)

\* The member_ids lists of the create_group requests.
MemberIdLists ==
    UNION {[1..n -> Pair] : n \in 0..MaxMemberIds}

NextGroups ==
    \/ \E token \in PairTokens : sync_user(token, Claims(token))
    \/ \E token \in PairTokens, member_ids \in MemberIdLists :
          /\ create_group(token, member_ids)
          /\ Len(groups') <= MaxGroups
          /\ Len(group_members') <= MaxMembers
    \/ \E token \in PairTokens, gid \in 1..(Len(groups) + 1),
          uid \in Pair \cup {GhostUser} :
          /\ add_member(token, gid, uid)
          /\ Len(group_members') <= MaxMembers
    \/ \E token \in PairTokens, gid \in 1..(Len(groups) + 1) :
          get_group(token, gid)
    \/ \E token \in PairTokens, gid \in 1..(Len(groups) + 1) :
          get_group_recommendations(token, gid)

SpecGroups == Init /\ [][NextGroups]_vars

---------------------------------------------------------------------------
(* The mutation routes of the three resources together. Every identity     *)
(* calls every mutation route; the resources they act on are created by    *)
(* one identity (the friend requests are sent to a second one), and a      *)
(* budget bounds the rows of all tables.                                   *)

SocialTokens == People \cup {NoToken}

Creator == "u1"
Invited == "u2"

SocialRows ==
    Len(friend_requests) + Len(collections) + Len(collection_restaurants)
    + Len(groups) + Len(group_members)

NextSocial ==
    \/ \E token \in SocialTokens : sync_user(token, Claims(token))
    \/ /\ send_friend_request(Creator, Invited)
       /\ SocialRows' <= MaxSocialRows
    \/ \E token \in SocialTokens, rid \in 1..(Len(friend_requests) + 1) :
          accept_friend_request(token, rid)
    \/ \E token \in SocialTokens, rid \in 1..(Len(friend_requests) + 1) :
          decline_friend_request(token, rid)
    \/ /\ create_collection(Creator)
       /\ SocialRows' <= MaxSocialRows
    \/ \E token \in SocialTokens, cid \in 1..(Len(collections) + 1) :
          /\ add_restaurant(token, cid, "r1")
          /\ SocialRows' <= MaxSocialRows
    \/ \E token \in SocialTokens, cid \in 1..(Len(collections) + 1) :
          remove_restaurant(token, cid, "r1")
    \/ /\ create_group(Creator, <<>>)
       /\ SocialRows' <= MaxSocialRows
    \/ \E token \in SocialTokens, gid \in 1..(Len(groups) + 1), uid \in People :
          /\ add_member(token, gid, uid)
          /\ SocialRows' <= MaxSocialRows

SpecSocial == Init /\ [][NextSocial]_vars

---------------------------------------------------------------------------
(* The restaurant routes, with the profiles of two users.                  *)

RestaurantTokens == Pair \cup {NoToken, BadToken}

NextRestaurants ==
    \/ \E token \in RestaurantTokens : sync_user(token, Claims(token))
    \/ \E token \in RestaurantTokens, request \in UpdateProfileRequests :
          update_profile(token, request)
    \/ \E token \in RestaurantTokens, vector \in VectorOutcomes :
          discover_restaurants(token, vector)
    \/ \E token \in RestaurantTokens, restaurant_id \in RestaurantIds,
          vector \in VectorOutcomes :
          get_restaurant(token, restaurant_id, vector)

SpecRestaurants == Init /\ [][NextRestaurants]_vars

---------------------------------------------------------------------------
(* The chat endpoint, with or without the LLM key.                         *)

ChatRequest(query, chat_id, location, diet_type, user_key) ==
    [query |-> query, chat_id |-> chat_id, location |-> location,
     diet_type |-> diet_type, user_key |-> user_key]

\* The requests: every query as a first turn without a location for a key
\* the map does not have; some with a chat_id, a location, a diet_type,
\* the key "default" or no key.
ChatRequests ==
    {ChatRequest(q, None, None, "", "guest") : q \in Queries}
    \cup {ChatRequest(q, <<"c1">>, None, "", "guest") : q \in {QPizza, QBoston}}
    \cup {ChatRequest(q, None, <<"Chicago">>, "", "guest") :
             q \in {QPizza, QBoston}}
    \cup {ChatRequest(QPizza, <<"c1">>, <<"Chicago">>, "", "guest"),
          ChatRequest(QPizza, None, None, "veg", "guest"),
          ChatRequest(QPizza, None, None, "", "default"),
          ChatRequest(QMenu, None, None, "", "default"),
          ChatRequest(QPizzaDowntown, None, None, "", "default"),
          ChatRequest(QPizza, None, None, "", "")}

\* The outcomes of the external calls of a turn: every combination of the
\* store and the agent with the LLM answering yes, and the LLM answering
\* no or failing with the rest working.
Externals ==
    [lookup : VectorOutcomes, search : SearchOutcomes, llm : {"yes"},
     agent : AgentOutcomes, classification : {"veg"}]
    \cup [lookup : {"hit"}, search : {"hit"}, llm : {"no", "down"},
          agent : {"ok"}, classification : {"non-veg"}]

InitChat ==
    /\ InitDb
    /\ USER_METADATA_MAP = InitialDemoUsers
    /\ GROQ_API_KEY \in BOOLEAN
    /\ InitModules
    /\ tool_call = NoCall

NextChat ==
    \E request \in ChatRequests, ext \in Externals :
        chat_endpoint(request, ext.lookup, ext.search, ext.llm, ext.agent,
                      ext.classification)

SpecChat == InitChat /\ [][NextChat]_vars

---------------------------------------------------------------------------
(* The hybrid allergy filter, called once on arguments drawn at the start. *)

MaxDishes == 2
MaxAllergies == 1
MaxNumbers == 2

DishNames == {"Pn", "ne", "e"}
Allergens == {"p", "Ne", "pn"}

ListsOf(S, n) == UNION {[1..k -> S] : k \in 0..n}

\* The LLM's answers: the numbers of the dishes it calls safe (one past the
\* end of the list included), or the call raising.
LlmAnswers == ListsOf(1..(MaxDishes + 1), MaxNumbers) \cup {LlmDown}

InitAllergy ==
    /\ InitDb
    /\ USER_METADATA_MAP = InitialDemoUsers
    /\ GROQ_API_KEY = TRUE
    /\ InitModules
    /\ tool_call \in [tool : {"filter_dishes_by_allergy_hybrid",
                              "filter_dishes_by_allergy"},
                      dishes : ListsOf(DishNames, MaxDishes),
                      allergies : ListsOf(Allergens, MaxAllergies),
                      llm_answer : LlmAnswers,
                      result : {NoResult}]

NextAllergy ==
    \/ call_filter_dishes_by_allergy_hybrid
    \/ call_filter_dishes_by_allergy

SpecAllergy == InitAllergy /\ [][NextAllergy]_vars

\* Calls of filter_dishes_by_diet: every list of at most MaxDietDishes of
\* these names, with every diet type.
MaxDietDishes == 3

DietDishNames == {"Chicken Tikka", "Paneer Masala", "EGG Roll", "Hamburger"}

DietTypes ==
    {"", "mix", "any", "all", "veg", "vegetarian", "non-veg", "nonveg",
     "non_veg"}

InitDiet ==
    /\ InitDb
    /\ USER_METADATA_MAP = InitialDemoUsers
    /\ GROQ_API_KEY = TRUE
    /\ InitModules
    /\ tool_call \in [tool : {"filter_dishes_by_diet"},
                      dishes : ListsOf(DietDishNames, MaxDietDishes),
                      diet_type : DietTypes,
                      result : {NoResult}]

NextDiet == call_filter_dishes_by_diet

SpecDiet == InitDiet /\ [][NextDiet]_vars

\* Calls of dish_recommendations_for_restaurant: menus of at most MaxMenu
\* dishes with distinct names, with or without a stored taste vector.
\* Taste vectors have two components here (TASTE_VECTOR_SIZE is 6).
MaxMenu == 2

MenuDishNames == {"Paneer Masala", "EGG Roll", "Hamburger"}

StoredTastes == {NoTaste, <<0, 0>>, <<1, 0>>}

UserTasteVectors == {<<0, 0>>, <<1, 0>>, <<1, -1>>}

InferredTastes == {<<0, 0>>, <<0, 1>>}

MenuItems == [name : MenuDishNames, taste : StoredTastes]

Menus ==
    {menu \in ListsOf(MenuItems, MaxMenu) :
        \A i, j \in DOMAIN menu : menu[i].name = menu[j].name => i = j}

InitRecommend ==
    /\ InitDb
    /\ USER_METADATA_MAP = InitialDemoUsers
    /\ GROQ_API_KEY = TRUE
    /\ InitModules
    /\ tool_call \in [tool : {"dish_recommendations_for_restaurant"},
                      menu_items : Menus,
                      user_taste_vec : UserTasteVectors,
                      diet_type : {"", "veg"},
                      allergies : {<<>>, <<"egg">>},
                      top_n : {1, 5},
                      llm_answer : {<<1>>, LlmDown},
                      inferred : [MenuDishNames -> InferredTastes],
                      result : {NoResult}]
    /\ tool_call.allergies = <<>> => tool_call.llm_answer = LlmDown

NextRecommend == call_dish_recommendations_for_restaurant

SpecRecommend == InitRecommend /\ [][NextRecommend]_vars

\* Calls of search_recipe_by_name: at most MaxRecipes loaded rows, each
\* with its score for the dish name, and the threshold.
MaxRecipes == 3

Scores == {50, 60, 70, 100}

Thresholds == {60, 70}

InitRecipes ==
    /\ InitDb
    /\ USER_METADATA_MAP = InitialDemoUsers
    /\ GROQ_API_KEY = TRUE
    /\ InitModules
    /\ tool_call \in [tool : {"search_recipe_by_name"},
                      recipes_list : ListsOf(Scores, MaxRecipes),
                      threshold : Thresholds,
                      result : {NoResult}]

NextRecipes == call_search_recipe_by_name

SpecRecipes == InitRecipes /\ [][NextRecipes]_vars

\* get_jwks called up to MaxCalls times, the clock advancing by one to three
\* half hours at a time up to MaxTime.
MaxCalls == 4

MaxTime == 6

NextJwks ==
    \/ \E fetch \in KeySets \cup {FetchFailed} :
          /\ get_jwks(fetch)
          /\ tool_call'.call <= MaxCalls
    \/ \E half_hours \in 1..3 :
          /\ clock_advances(half_hours)
          /\ utcnow' <= MaxTime

SpecJwks == Init /\ [][NextJwks]_vars

\* maybe_upsert_ingredients_to_pinecone called up to MaxBootstrapCalls times
\* on an index that held 0, 100 or 101 vectors at start, with a file of up
\* to MaxRows rows.
MaxBootstrapCalls == 3

MaxRows == 2

Ingredients == {"salt", " basil", "olive oil", ""}

InitBootstrap ==
    /\ InitDb
    /\ USER_METADATA_MAP = InitialDemoUsers
    /\ GROQ_API_KEY = TRUE
    /\ tasks = [t \in Tasks |-> Idle]
    /\ _jwks_cache = NoJwks
    /\ _jwks_cache_time = NoTime
    /\ utcnow = 0
    /\ _ingredient_upsert_done = FALSE
    /\ pinecone_index \in {IndexWith(0), IndexWith(SeededAbove),
                           IndexWith(SeededAbove + 1)}
    /\ tool_call = [tool |-> "maybe_upsert_ingredients_to_pinecone",
                    call |-> 0, path |-> "none"]

NextBootstrap ==
    \E rows \in ListsOf(Ingredients, MaxRows) \cup {NoFile},
       services_up \in BOOLEAN, encodes \in BOOLEAN,
       failing_batch \in 0..MaxRows :
       /\ maybe_upsert_ingredients_to_pinecone(rows, services_up, encodes,
                                               failing_batch)
       /\ tool_call'.call <= MaxBootstrapCalls

SpecBootstrap == InitBootstrap /\ [][NextBootstrap]_vars

\* Calls of the tool adapters: every combination of these arguments and
\* outcomes of the functions they wrap.
MaxFavorites == 2

TasteVectorJsons ==
    {"not json", "{}", "{\"sweet\": 0.5}",
     "{\"sweet\": 0.5, \"spicy\": 0.1, \"umami\": 0.7}"}

FavoriteDishes == {"named", "unnamed", "not a dict"}

InitTools ==
    /\ InitDb
    /\ USER_METADATA_MAP = InitialDemoUsers
    /\ GROQ_API_KEY = TRUE
    /\ InitModules
    /\ tool_call \in
          [tool : {"recommend_beer_pairing_tool"},
           recommender : {"none", "ready"},
           menu : {"none", "beer", "no_beer"},
           taste_vector_json : TasteVectorJsons,
           backend : {"recommendations", "empty", "raises"},
           result : {NoResult}]
          \cup [tool : {"generate_taste_vector_tool"},
                flavor_map : {"ok", "raises"},
                keyword_matched : BOOLEAN,
                groq : {"ok", "down"},
                result : {NoResult}]
          \cup [tool : {"calculate_favorites_boost_tool"},
                menu_items : {<<>>, <<"Pizza">>},
                favorite_dishes : ListsOf(FavoriteDishes, MaxFavorites),
                result : {NoResult}]

NextTools ==
    \/ call_recommend_beer_pairing_tool
    \/ call_generate_taste_vector_tool
    \/ call_calculate_favorites_boost_tool

SpecTools == InitTools /\ [][NextTools]_vars

\* Calls of scrape_menu_url: a page, a PDF and an image, with up to
\* MaxSelected texts from the selectors, MaxHeadings from the headings and
\* MaxAnswered names in the answer of the LLM.
MaxSelected == 2

MaxHeadings == 1

MaxAnswered == 3

MenuTexts == {"Pad Thai", "PAD THAI", "Tiramisu", "Pizza"}

MenuUrls == {"", "https://x.io/menu", "https://x.io/Menu.PDF",
             "https://x.io/menu.png"}

InitMenu ==
    /\ InitDb
    /\ USER_METADATA_MAP = InitialDemoUsers
    /\ GROQ_API_KEY = TRUE
    /\ InitModules
    /\ tool_call \in
          [tool : {"scrape_menu_url"},
           menu_url : {"https://x.io/menu"},
           fetched : BOOLEAN, has_text : {TRUE},
           selected : ListsOf(MenuTexts \ {"Pizza"}, MaxSelected),
           headings : ListsOf(MenuTexts, MaxHeadings),
           groq_client : BOOLEAN,
           answer : ListsOf(MenuTexts \ {"Pizza"}, MaxAnswered - 1)
                       \cup {NoAnswer},
           result : {NoResult}]
          \cup [tool : {"scrape_menu_url"},
                menu_url : MenuUrls \ {"https://x.io/menu"},
                fetched : BOOLEAN, has_text : BOOLEAN,
                selected : {<<>>}, headings : {<<>>},
                groq_client : BOOLEAN,
                answer : ListsOf(MenuTexts, MaxAnswered) \cup {NoAnswer},
                result : {NoResult}]

NextMenu == call_scrape_menu_url

SpecMenu == InitMenu /\ [][NextMenu]_vars

\* Calls of check_location_match: every pair of these locations, with every
\* outcome of the LLM.
Locations ==
    {"", "San Francisco, CA", "123 Main St, San Francisco, CA",
     "New York, NY", "Mumbai, India", "Brooklyn, NY", "Manhattan, NY",
     "Austin, TX", "Chicago, IL", "Paris, France"}

InitLocation ==
    /\ InitDb
    /\ USER_METADATA_MAP = InitialDemoUsers
    /\ GROQ_API_KEY = TRUE
    /\ InitModules
    /\ tool_call \in [tool : {"check_location_match"},
                      user_location : Locations,
                      restaurant_location : Locations,
                      llm : LlmOutcomes,
                      result : {NoResult}]

NextLocation == call_check_location_match

SpecLocation == InitLocation /\ [][NextLocation]_vars

\* Calls on the demo store: the keys "default" (also addressed by no key)
\* and "guest" (no record at start), every combination of a missing and a
\* given value of the four fields, an empty location and an entry of the
\* favorites that is no dish; "default" may hold a pending query.
DemoKeys == {"default", "guest"}

DemoData ==
    [location : {None, <<>>, <<"Boston">>},
     allergies : {None, <<"gluten">>},
     favorite_dishes : {None, <<"Pad Thai", NotADish>>},
     diet_type : {NoDiet, "vegan"}]

DemoRequests ==
    [user_key : {"", "guest"}, location : {None, <<>>, <<"Boston">>},
     diet_type : {"", "vegan"}]
    \cup [user_key : {"", "guest"}, location : {None, <<"Boston">>},
          diet_type : {"", "vegan"}, allergies : {None, <<"gluten">>},
          favorite_dishes : {None, <<"Pad Thai", NotADish>>}]

InitDemoStore ==
    /\ InitDb
    /\ USER_METADATA_MAP \in
          {InitialDemoUsers,
           [InitialDemoUsers EXCEPT !["default"].pending_query = QPizza]}
    /\ GROQ_API_KEY = TRUE
    /\ InitModules
    /\ tool_call = NoCall

NextDemoStore ==
    \/ \E request \in DemoRequests :
          call_sync_dummy_user_from_request(request)
    \/ \E user_key \in DemoKeys, data \in DemoData :
          call_update_dummy_user(user_key, data)

SpecDemoStore == InitDemoStore /\ [][NextDemoStore]_vars

\* Calls of filter_and_rank_recommendations: at most MaxMatches matches,
\* with or without dishes_json, with each outcome of the allergy LLM.
MaxMatches == 2

MatchMenus == {<<>>, <<"EGG Roll", "Hamburger">>, <<"Paneer Masala">>}

DishesJsons ==
    {<<>>, <<[name |-> "EGG Roll", taste |-> <<1, 0>>],
             [name |-> "Hamburger", taste |-> NoTaste]>>}

\* dishes_json, when the metadata has it, holds the dishes of menu_items.
Matches ==
    {match \in [name : {"Thai Place"}, menu_items : MatchMenus,
                dishes_json : DishesJsons, location : {"Austin, TX"},
                cuisine_types : {<<"Thai">>}, combined : {1, 2},
                llm_answer : {LlmDown, <<2>>}, llm : {"yes"}] :
        \/ match.dishes_json = <<>>
        \/ match.menu_items
              = [i \in DOMAIN match.dishes_json |-> match.dishes_json[i].name]}

RankArgs ==
    [user_taste_vec : {<<1, 0>>}, diet_type : {"", "veg"},
     allergies : {<<>>, <<"egg">>}, max_results : {1, 10},
     location_filter : {"", "Austin, TX", "Paris, France"},
     cuisine_filter : {"", "thai", "pizza"},
     inferred : {[n \in MenuDishNames |-> <<0, 1>>]}]

InitRank ==
    /\ InitDb
    /\ USER_METADATA_MAP = InitialDemoUsers
    /\ GROQ_API_KEY = TRUE
    /\ InitModules
    /\ tool_call \in [tool : {"filter_and_rank_recommendations"},
                      matches : ListsOf(Matches, MaxMatches),
                      args : RankArgs,
                      result : {NoResult}]

NextRank == call_filter_and_rank_recommendations

SpecRank == InitRank /\ [][NextRank]_vars

---------------------------------------------------------------------------
(* The users routes: sync_user with the claims of successive tokens of a   *)
(* subject, and update_profile.                                            *)

UsersTokens == Pair \cup {NoToken, BadToken}

\* The claims a token of a subject may carry: the usual ones, a changed
\* email or name, and none of either.
ClaimsOf(token) ==
    {Claims(token), [email |-> "new@x.io", name |-> token],
     [email |-> token, name |-> "Renamed"], [email |-> "", name |-> ""]}

\* Bodies of update_profile that set each of the columns.
ProfileRequests ==
    {[name |-> "Ann"], [location |-> "Boston"], [allergies |-> <<"nuts">>],
     [diet_type |-> "veg"], [taste_vector |-> SpicyTaste],
     [favorite_dishes |-> <<"Pad Thai">>]}

NextUsers ==
    \/ \E token \in UsersTokens :
          \E claims \in ClaimsOf(token) : sync_user(token, claims)
    \/ \E request \in ProfileRequests : update_profile("u1", request)
    \/ \E token \in UsersTokens : update_profile(token, [diet_type |-> "veg"])

SpecUsers == Init /\ [][NextUsers]_vars

---------------------------------------------------------------------------
(* Properties of the friends routes.                                       *)

Verified(token) == get_current_user_id(token).status = 200

\* C3: send_friend_request from user A to user B answers 400 and creates no
\* FriendRequest row when B is A, when a pending request from A to B exists,
\* or when a Friendship row between A and B exists in either orientation.
C3_SendRejectedWith400 ==
    [][\A a \in People, b \in People :
          ( /\ resp'.op = "send_friend_request"
            /\ resp'.token = a /\ resp'.arg = b
            /\ UserExists(a) /\ UserExists(b)
            /\ \/ a = b
               \/ PendingFromTo(a, b) # {}
               \/ FriendshipBetween(a, b) # {} )
          => (resp'.status = 400 /\ friend_requests' = friend_requests)]_vars

\* C8: a friend request starts pending and its status changes at most once:
\* accept moves it from pending to accepted and adds the Friendship row of
\* its sender and recipient, decline moves it from pending to declined; a
\* request that is accepted or declined never changes again, and a further
\* accept or decline on it by a verified caller answers 404 and adds no
\* Friendship row.
C8_StatusChangesOnce ==
    [][ /\ Len(friend_requests') >= Len(friend_requests)
        /\ \A i \in 1..Len(friend_requests') :
              i > Len(friend_requests) => friend_requests'[i].status = "pending"
        /\ \A i \in 1..Len(friend_requests) :
              LET old == friend_requests[i]
                  new == friend_requests'[i]
                  answered == /\ resp'.op \in {"accept_friend_request",
                                               "decline_friend_request"}
                              /\ resp'.arg = i
              IN
              /\ new.from_user_id = old.from_user_id
              /\ new.to_user_id = old.to_user_id
              /\ old.status # "pending" =>
                    /\ new.status = old.status
                    /\ (answered /\ Verified(resp'.token)) =>
                          (resp'.status = 404 /\ friendships' = friendships)
              /\ (old.status = "pending" /\ new.status # "pending") =>
                    /\ answered /\ resp'.status = 200
                    /\ resp'.token = old.to_user_id
                    /\ resp'.op = "accept_friend_request" =>
                          /\ new.status = "accepted"
                          /\ friendships' =
                                Append(friendships,
                                       [user1_id |-> old.from_user_id,
                                        user2_id |-> old.to_user_id])
                    /\ resp'.op = "decline_friend_request" =>
                          /\ new.status = "declined"
                          /\ friendships' = friendships
      ]_vars

\* A second accept, by the recipient, of a request that is already accepted
\* or declined has been answered.
C8_Witness ==
    /\ resp.op = "accept_friend_request"
    /\ resp.status = 404
    /\ resp.arg \in 1..Len(friend_requests)
    /\ friend_requests[resp.arg].status \in {"accepted", "declined"}
    /\ friend_requests[resp.arg].to_user_id = resp.token

---------------------------------------------------------------------------
(* Properties of the collections routes.                                   *)

AtMostOncePerCollection ==
    \A c \in 1..Len(collections), r \in RestaurantIds :
        Cardinality(SavedRows(c, r)) <= 1

\* C4: whatever create_collection, add_restaurant and remove_restaurant
\* requests ran, one after the other, a collection holds at most one row per
\* external restaurant id, and an add_restaurant by the owner for an id the
\* collection already holds answers 400 and creates no row.
C4_OneRowPerRestaurant ==
    /\ []AtMostOncePerCollection
    /\ [][\A c \in 1..Len(collections), r \in RestaurantIds :
             ( /\ resp'.op = "add_restaurant"
               /\ resp'.arg = <<c, r>>
               /\ resp'.token = collections[c].user_id
               /\ SavedRows(c, r) # {} )
             => ( /\ resp'.status = 400
                  /\ collection_restaurants' = collection_restaurants )]_vars

\* The owner's add of a restaurant the collection already holds was refused.
C4_Witness ==
    /\ resp.op = "add_restaurant"
    /\ resp.status = 400
    /\ SavedRows(resp.arg[1], resp.arg[2]) # {}
    /\ Len(collection_restaurants) >= 2

---------------------------------------------------------------------------
(* Properties of the groups routes.                                        *)

\* C5: whatever create_group and add_member requests ran, no group has two
\* GroupMember rows of one user, and the creator of every group is a member.
C5_MembersUnique ==
    \A g \in 1..Len(groups) :
        /\ \A u \in People : Cardinality(MemberRows(g, u)) <= 1
        /\ MemberRows(g, groups[g].created_by) # {}

---------------------------------------------------------------------------
(* Properties of the mutation routes together.                             *)

Caller(token) == get_current_user_id(token).user_id

\* C6: a mutation route changes nothing for a caller who is not entitled:
\* add_restaurant and remove_restaurant on a collection by a user who is not
\* its owner answer 403, add_member on a group by a user who is not a member
\* answers 403, accept and decline of a friend request by a user who is not
\* its recipient answer 404, and in each case every table is left as it was.
C6_OnlyTheEntitledMutate ==
    [][ /\ \A c \in 1..Len(collections) :
              ( /\ resp'.op \in {"add_restaurant", "remove_restaurant"}
                /\ resp'.arg[1] = c
                /\ Caller(resp'.token) # collections[c].user_id )
              => /\ dbVars' = dbVars
                 /\ resp'.status \in {401, 403, 404}
                 /\ UserExists(Caller(resp'.token)) => resp'.status = 403
        /\ \A g \in 1..Len(groups) :
              ( /\ resp'.op = "add_member"
                /\ resp'.arg[1] = g
                /\ MemberRows(g, Caller(resp'.token)) = {} )
              => /\ dbVars' = dbVars
                 /\ resp'.status \in {401, 403, 404}
                 /\ UserExists(Caller(resp'.token)) => resp'.status = 403
        /\ \A i \in 1..Len(friend_requests) :
              ( /\ resp'.op \in {"accept_friend_request", "decline_friend_request"}
                /\ resp'.arg = i
                /\ Caller(resp'.token) # friend_requests[i].to_user_id )
              => /\ dbVars' = dbVars
                 /\ resp'.status \in {401, 404}
                 /\ UserExists(Caller(resp'.token)) => resp'.status = 404
      ]_vars

\* A user who has a User row and is neither sender nor recipient of a pending
\* request tried to accept it.
C6_Witness ==
    /\ resp.op = "accept_friend_request"
    /\ resp.status = 404
    /\ resp.arg \in 1..Len(friend_requests)
    /\ friend_requests[resp.arg].status = "pending"
    /\ UserExists(Caller(resp.token))
    /\ Caller(resp.token) \notin {friend_requests[resp.arg].from_user_id,
                                  friend_requests[resp.arg].to_user_id}

---------------------------------------------------------------------------
(* The restaurant routes and the bearer token.                             *)

\* C7: GET /api/restaurants/discover and GET /api/restaurants/{id} accept
\* a request without a bearer token: they do not answer 401 but rank with
\* the anonymous defaults, and they rank with stored preferences only for
\* a valid token.
C7_TokenOptional ==
    resp.op \in {"discover_restaurants", "get_restaurant"} =>
        /\ resp.token = NoToken =>
              /\ resp.status # 401
              /\ resp.prefs \in {NoPrefs, AnonymousDefaults}
        /\ resp.prefs \notin {NoPrefs, AnonymousDefaults} => Verified(resp.token)

---------------------------------------------------------------------------
(* The chat endpoint.                                                      *)

StoredLocation(map, user_key) ==
    IF user_key \in DOMAIN map THEN map[user_key].location ELSE <<>>

StoredPending(map, user_key) ==
    IF user_key \in DOMAIN map THEN map[user_key].pending_query ELSE None

\* A first turn that carries no location: no chat_id, no location field,
\* no location phrase in the query.
NoLocationFirstTurn(request) ==
    /\ ~Truthy(request.chat_id)
    /\ ~Truthy(request.location)
    /\ Parsed[request.query].location = None

\* The step is a chat turn of a demo user without a stored location that
\* carries no location and reaches the general stage.
AsksFirst ==
    /\ resp'.op = "chat_endpoint"
    /\ ~Truthy(StoredLocation(USER_METADATA_MAP, UserKeyOf(resp'.request)))
    /\ NoLocationFirstTurn(resp'.request)
    /\ resp'.stage = "general"

\* ... and the response is the location question, without recommendations,
\* and the query is stored as the pending query.
Asked ==
    /\ resp'.kind = "ask_location"
    /\ resp'.recommendations = "absent"
    /\ StoredPending(USER_METADATA_MAP', UserKeyOf(resp'.request))
          = resp'.request.query

\* The step is a first turn with only a location string (no location
\* field, no location phrase) of a user with a pending query.
RepliesWithLocation ==
    /\ resp'.op = "chat_endpoint"
    /\ Truthy(StoredPending(USER_METADATA_MAP, UserKeyOf(resp'.request)))
    /\ NoLocationFirstTurn(resp'.request)
    /\ Truthy(resp'.request.query)

\* ... and it ran the pending query with the reply as the location, saved
\* the location and cleared the pending query.
Resumed ==
    LET user_key == UserKeyOf(resp'.request) IN
    /\ resp'.query = StoredPending(USER_METADATA_MAP, user_key)
    /\ resp'.location = resp'.request.query
    /\ StoredLocation(USER_METADATA_MAP', user_key) = resp'.request.query
    /\ StoredPending(USER_METADATA_MAP', user_key) = None

C2_OnlyMissingKeyFails ==
    resp.op = "chat_endpoint" =>
        (resp.status = 200 <=> GROQ_API_KEY)

\* The turn supplies a location: in the location field, as a phrase of the
\* query, or as the bare reply to the location question.
SuppliesLocation ==
    /\ resp'.op = "chat_endpoint"
    /\ \/ Truthy(resp'.request.location)
       \/ Parsed[resp'.request.query].location # None
       \/ RepliesWithLocation

\* C9: after any chat turn that supplies a location (field, phrase or bare
\* reply) the pending query of that user_key is empty.
C9_PendingEndsWithLocation ==
    [][SuppliesLocation =>
          ~Truthy(StoredPending(USER_METADATA_MAP', UserKeyOf(resp'.request)))]_vars

---------------------------------------------------------------------------
(* The hybrid allergy filter.                                              *)

\* What the claim says the tool reports for its arguments: the dishes that
\* pass both filters with "intersection", or the LLM-safe dishes with
\* "ai_fallback" when there is none but the LLM-safe set is not empty.
IntersectionOrFallback ==
    LET keyword_set == Range(keyword_safe(tool_call.dishes, tool_call.allergies))
        ai_set == Range(filter_dishes_by_allergy(tool_call.dishes,
                                                 tool_call.allergies,
                                                 tool_call.llm_answer)) IN
    IF keyword_set \cap ai_set = {} /\ ai_set # {}
    THEN tool_call.result = HybridResult(ai_set, "ai_fallback")
    ELSE tool_call.result = HybridResult(keyword_set \cap ai_set, "intersection")

Called ==
    /\ tool_call.tool = "filter_dishes_by_allergy_hybrid"
    /\ tool_call.result # NoResult

\* C10 as stated: for any dish list and any non-empty allergy list the
\* tool reports exactly the dishes passing both filters with method
\* "intersection", and the LLM-safe set with "ai_fallback" only when the
\* intersection is empty and the LLM-safe set is not.
C10_IntersectionOrFallback ==
    (Called /\ tool_call.allergies # <<>>) => IntersectionOrFallback

\* C10 for a non-empty dish list: as C10, for any non-empty dish list and
\* any non-empty allergy list.
C10_IntersectionOrFallback_NonEmpty ==
    (Called /\ tool_call.allergies # <<>> /\ tool_call.dishes # <<>>)
        => IntersectionOrFallback

\* A call where no dish passes both filters and the LLM-safe set is
\* reported.
C10_Witness ==
    /\ Called
    /\ tool_call.dishes # <<>>
    /\ tool_call.allergies # <<>>
    /\ tool_call.result.method = "ai_fallback"
    /\ tool_call.result.safe_dishes # {}


\* A dish whose own name contains none of the allergy strings, compared
\* without case.
NameHasNoAllergen(dish, allergies) ==
    LET name == StrLower(dish) IN
    \A k \in DOMAIN allergies : ~StrContains(StrLower(allergies[k]), name)

\* C11: when the LLM call of filter_dishes_by_allergy fails, the result is
\* exactly the input dishes whose own name contains none of the allergy
\* strings as a case-insensitive substring, so that no returned dish name
\* contains a stated allergen.
C11_FallbackIsKeywordCheck ==
    (/\ tool_call.tool = "filter_dishes_by_allergy"
     /\ tool_call.result # NoResult
     /\ tool_call.llm_answer = LlmDown)
        => LET Keep(d) == NameHasNoAllergen(d, tool_call.allergies) IN
           /\ tool_call.result.safe_dishes = SelectSeq(tool_call.dishes, Keep)
           /\ \A i \in DOMAIN tool_call.result.safe_dishes :
                  Keep(tool_call.result.safe_dishes[i])


LocationCall(user_location, restaurant_location) ==
    /\ tool_call.tool = "check_location_match"
    /\ tool_call.result # NoResult
    /\ tool_call.user_location = user_location
    /\ tool_call.restaurant_location = restaurant_location

\* C12: check_location_match decides these four pairs on its fast paths,
\* without an LLM call: San Francisco, CA against an address in San
\* Francisco matches; New York, NY against Mumbai, India does not;
\* Brooklyn, NY against Manhattan, NY matches; Austin, TX against
\* Chicago, IL does not.
C12_FastPaths ==
    /\ LocationCall("San Francisco, CA", "123 Main St, San Francisco, CA")
          => tool_call.result = LocationResult(TRUE, FALSE)
    /\ LocationCall("New York, NY", "Mumbai, India")
          => tool_call.result = LocationResult(FALSE, FALSE)
    /\ LocationCall("Brooklyn, NY", "Manhattan, NY")
          => tool_call.result = LocationResult(TRUE, FALSE)
    /\ LocationCall("Austin, TX", "Chicago, IL")
          => tool_call.result = LocationResult(FALSE, FALSE)


RECURSIVE IsSubList(_, _)
\* sub is a sub-list of full, in the order of full.
IsSubList(sub, full) ==
    IF sub = <<>> THEN TRUE
    ELSE IF full = <<>> THEN FALSE
    ELSE IF Head(sub) = Head(full)
         THEN IsSubList(Tail(sub), Tail(full))
         ELSE IsSubList(sub, Tail(full))

Occurrences(list, x) == Cardinality({i \in DOMAIN list : list[i] = x})

HasNonVegKeyword(dish) ==
    LET name == StrLower(dish) IN
    \E keyword \in NON_VEG_KEYWORDS : StrContains(keyword, name)

DietCalled ==
    /\ tool_call.tool = "filter_dishes_by_diet"
    /\ tool_call.result # NoResult

\* C13: for every dish list the vegetarian and the non-vegetarian result
\* are two sub-lists in input order that share no dish and together hold
\* every input dish, a dish being on the non-vegetarian side exactly when
\* its name contains a non-veg keyword; with diet mix, any, all or unset
\* the list is returned unchanged.
C13_DietPartition ==
    DietCalled =>
        LET dishes == tool_call.dishes
            result == tool_call.result.dishes
            veg == IF tool_call.diet_type \in {"veg", "vegetarian"}
                   THEN result ELSE filter_dishes_by_diet(dishes, "veg")
            nonveg == IF tool_call.diet_type \in {"non-veg", "nonveg", "non_veg"}
                      THEN result ELSE filter_dishes_by_diet(dishes, "non-veg") IN
        /\ tool_call.diet_type \in {"", "mix", "any", "all"} => result = dishes
        /\ IsSubList(veg, dishes) /\ IsSubList(nonveg, dishes)
        /\ \A i \in DOMAIN veg : ~HasNonVegKeyword(veg[i])
        /\ \A i \in DOMAIN nonveg : HasNonVegKeyword(nonveg[i])
        /\ \A d \in DietDishNames :
              Occurrences(veg, d) + Occurrences(nonveg, d)
                  = Occurrences(dishes, d)

\* A vegetarian call on a list with both kinds of dishes, one of them
\* recognised only without case (EGG).
C13_Witness ==
    /\ DietCalled
    /\ tool_call.diet_type = "veg"
    /\ tool_call.dishes = <<"EGG Roll", "Paneer Masala", "Hamburger">>
    /\ tool_call.result.dishes = <<"Paneer Masala">>


RecommendCalled ==
    /\ tool_call.tool = "dish_recommendations_for_restaurant"
    /\ tool_call.result # NoResult

\* The taste vector the call used for the dish of this name: the stored
\* one, else the inferred one.
TasteUsed(name) ==
    LET item == CHOOSE item \in Range(tool_call.menu_items) : item.name = name IN
    IF item.taste # NoTaste THEN item.taste ELSE tool_call.inferred[name]

AllZero(vec) == \A i \in DOMAIN vec : vec[i] = 0

\* C14 as stated: every returned dish whose taste vector sums to zero, and
\* every returned dish when the user's taste vector sums to zero, has
\* similarity exactly 50.0.
C14_ZeroSumIsFifty ==
    RecommendCalled =>
        \A i \in DOMAIN tool_call.result.dishes :
            LET dish == tool_call.result.dishes[i] IN
            (Sum(tool_call.user_taste_vec) = 0 \/ Sum(TasteUsed(dish.name)) = 0)
                => dish.similarity = 500

\* C14 for vectors that are zero in every component: every returned dish
\* whose taste vector is all zeros, and every returned dish when the user's
\* taste vector is all zeros, has similarity exactly 50.0.
C14_ZeroVectorIsFifty ==
    RecommendCalled =>
        \A i \in DOMAIN tool_call.result.dishes :
            LET dish == tool_call.result.dishes[i] IN
            (AllZero(tool_call.user_taste_vec) \/ AllZero(TasteUsed(dish.name)))
                => dish.similarity = 500

\* Two dishes are returned for a user with a taste: one with an all-zero
\* vector at 50.0 behind one with a cosine of 100.0.
C14_Witness ==
    /\ RecommendCalled
    /\ ~AllZero(tool_call.user_taste_vec)
    /\ Len(tool_call.result.dishes) = 2
    /\ tool_call.result.dishes[1].similarity = 1000
    /\ tool_call.result.dishes[2].similarity = 500
    /\ AllZero(TasteUsed(tool_call.result.dishes[2].name))


\* C15: when the dish name has no exact match, search_recipe_by_name
\* returns the highest-scoring recipe among the rows it scans whenever that
\* score is at or above the threshold (a score equal to the threshold is
\* accepted), and returns no match only when every scanned score is below
\* the threshold.
C15_BestAtOrAboveThreshold ==
    (/\ tool_call.tool = "search_recipe_by_name"
     /\ tool_call.result # NoResult
     /\ \A k \in DOMAIN tool_call.recipes_list : tool_call.recipes_list[k] # 100)
        => LET rows == Scanned(tool_call.recipes_list)
               row == tool_call.result.row IN
           /\ (\E k \in DOMAIN rows : rows[k] >= tool_call.threshold)
                 => /\ row \in DOMAIN rows
                    /\ \A k \in DOMAIN rows : rows[k] <= rows[row]
           /\ row = 0 => \A k \in DOMAIN rows : rows[k] < tool_call.threshold


\* C16: with add_restaurant requests running as concurrent tasks, each in
\* its own session and interleaved at the awaited database calls, a
\* collection never holds more than one row for an external restaurant id.
C16_OneRowUnderConcurrency ==
    \A row1, row2 \in DOMAIN collection_restaurants :
        ( /\ collection_restaurants[row1].collection_id
                = collection_restaurants[row2].collection_id
          /\ collection_restaurants[row1].restaurant_id
                = collection_restaurants[row2].restaurant_id )
        => row1 = row2


---------------------------------------------------------------------------
(* Properties of get_jwks.                                                 *)

\* The step is a call of get_jwks.
JwksCalled == tool_call'.tool = "get_jwks" /\ tool_call' # tool_call

\* The cache holds a key set fetched at most an hour ago.
JwksFresh ==
    /\ _jwks_cache # NoJwks
    /\ _jwks_cache_time # NoTime
    /\ utcnow - _jwks_cache_time[1] <= JWKS_CACHE_TTL

\* C17: over any sequence of get_jwks calls, time advances and fetch
\* outcomes: the cache time is the time of the last successful fetch; a call
\* within one hour of it returns the cached key set without fetching; a call
\* with no cache or an expired cache fetches; a failed fetch with a cached set
\* returns the stale set and leaves the cache as it was, and the next call
\* fetches again; a failed fetch with no cached set raises.
C17_JwksCache ==
    [][JwksCalled =>
        /\ (tool_call'.fetched /\ tool_call'.fetch # FetchFailed)
              => /\ _jwks_cache' = tool_call'.fetch
                 /\ _jwks_cache_time' = <<utcnow>>
                 /\ tool_call'.result = tool_call'.fetch
        /\ ~(tool_call'.fetched /\ tool_call'.fetch # FetchFailed)
              => UNCHANGED <<_jwks_cache, _jwks_cache_time>>
        /\ JwksFresh
              => /\ ~tool_call'.fetched
                 /\ tool_call'.result = _jwks_cache
        /\ ~JwksFresh => tool_call'.fetched
        /\ (tool_call'.fetched /\ tool_call'.fetch = FetchFailed
            /\ _jwks_cache # NoJwks)
              => tool_call'.result = _jwks_cache
        /\ (tool_call.tool = "get_jwks" /\ tool_call.fetched
            /\ tool_call.fetch = FetchFailed)
              => tool_call'.fetched
        /\ (tool_call'.fetched /\ tool_call'.fetch = FetchFailed
            /\ _jwks_cache = NoJwks)
              => tool_call'.result = "raise"]_vars

\* A call after a failed fetch fetched again, failed again and returned the
\* stale key set.
C17_Witness ==
    /\ tool_call.tool = "get_jwks"
    /\ tool_call.call >= 3
    /\ tool_call.fetched
    /\ tool_call.fetch = FetchFailed
    /\ tool_call.result \in KeySets
    /\ _jwks_cache_time # NoTime
    /\ utcnow - _jwks_cache_time[1] > JWKS_CACHE_TTL + 1


---------------------------------------------------------------------------
(* Properties of the ingredient bootstrap.                                 *)

\* The step is a call of maybe_upsert_ingredients_to_pinecone.
BootstrapCalled ==
    /\ tool_call'.tool = "maybe_upsert_ingredients_to_pinecone"
    /\ tool_call' # tool_call

\* C18: across any sequence of calls of maybe_upsert_ingredients_to_pinecone
\* the index is written by the first call at most: every call, whatever path
\* it returns on, leaves _ingredient_upsert_done set; a call that finds it
\* set returns without touching the index; and a call that finds more than
\* 100 vectors in the index upserts nothing.
C18_UpsertAtMostOnce ==
    [][BootstrapCalled =>
        /\ _ingredient_upsert_done'
        /\ _ingredient_upsert_done
              => (pinecone_index' = pinecone_index /\ tool_call'.path = "done")
        /\ tool_call.call >= 1 => pinecone_index' = pinecone_index
        /\ total_vector_count(pinecone_index) > SeededAbove
              => pinecone_index' = pinecone_index]_vars

\* A later call returned at once, after a first call that upserted records
\* and then raised part-way.
C18_Witness ==
    /\ tool_call.tool = "maybe_upsert_ingredients_to_pinecone"
    /\ tool_call.call >= 2
    /\ tool_call.path = "done"
    /\ _ingredient_upsert_done
    /\ Cardinality(pinecone_index.records[DefaultNamespace]) = 1

---------------------------------------------------------------------------
\* C20: when the location extracted from the query is a generic one
\* (downtown, nearby, near me, around here, local, in the area) and the demo
\* user has a stored location, the recommendations of the general stage are
\* filtered by the extracted phrase completed with the stored location, not
\* by the bare phrase.
C20_GenericLocationCompleted ==
    (/\ resp.op = "chat_endpoint"
     /\ resp.kind = "recommendations"
     /\ Parsed[resp.request.query].location # None
     /\ \E generic \in generic_locations :
           Contains(Parsed[resp.request.query].location, generic)
     /\ Truthy(USER_METADATA_MAP[UserKeyOf(resp.request)].location))
        => resp.location_to_filter
              = Parsed[resp.request.query].location \o <<",">>
                   \o USER_METADATA_MAP[UserKeyOf(resp.request)].location


---------------------------------------------------------------------------
\* C21: without the strands framework process_query returns the fixed
\* agent-system-unavailable text, and the chat endpoint never answers the
\* user with that text: its agent fallback gives the not-found or no-results
\* message of the stage instead.
C21_DegradedGivesNotFound ==
    /\ process_query("degraded") = "agent_unavailable"
    /\ resp.op = "chat_endpoint" => resp.kind # "agent_unavailable"


---------------------------------------------------------------------------
\* C22: every tool adapter returns a result and never raises, whatever its
\* arguments (a text that is not JSON, a parsed argument without a key) and
\* whatever the function it wraps does.
C22_AdaptersNeverRaise ==
    (/\ tool_call.tool \in {"recommend_beer_pairing_tool",
                            "generate_taste_vector_tool",
                            "calculate_favorites_boost_tool"}
     /\ tool_call.result # NoResult)
        => ~tool_call.result.raised


---------------------------------------------------------------------------
(* Properties of the menu scraper.                                         *)

MenuScraped ==
    tool_call.tool = "scrape_menu_url" /\ tool_call.result # NoResult

NoDuplicateDishes(dishes) ==
    \A i, j \in DOMAIN dishes :
        StrLower(dishes[i]) = StrLower(dishes[j]) => i = j

\* C23: for a page, a PDF and an image alike, the list scrape_menu_url
\* returns holds no two names that are equal ignoring case and is no longer
\* than the cap.
C23_UniqueAndCapped ==
    MenuScraped
        => /\ NoDuplicateDishes(tool_call.result.dishes)
           /\ Len(tool_call.result.dishes) <= DishCap

---------------------------------------------------------------------------
(* Properties of the demo store.                                           *)

DemoWrites == {"sync_dummy_user_from_request", "update_dummy_user"}

\* The record of a key before a call (the one get_dummy_user creates when
\* the map has none).
RecordOf(map, user_key) ==
    IF user_key \in DOMAIN map THEN map[user_key] ELSE NewDemoUser

WrittenFields == {"location", "allergies", "favorite_dishes", "diet_type"}

IsNull(incoming, field) ==
    IF field = "diet_type" THEN incoming.diet_type = NoDiet
    ELSE incoming[field] = None

\* C24: a call of sync_dummy_user_from_request or update_dummy_user leaves
\* unchanged every field of the addressed record whose incoming value is
\* null, the pending_query of that record, and the record of every other
\* key.
C24_OnlyGivenFieldsChange ==
    [][tool_call'.tool \in DemoWrites =>
        LET user_key == tool_call'.user_key
            before == RecordOf(USER_METADATA_MAP, user_key)
            after == USER_METADATA_MAP'[user_key] IN
        /\ DOMAIN USER_METADATA_MAP'
              = DOMAIN USER_METADATA_MAP \cup {user_key}
        /\ \A other \in DOMAIN USER_METADATA_MAP \ {user_key} :
              USER_METADATA_MAP'[other] = USER_METADATA_MAP[other]
        /\ after.pending_query = before.pending_query
        /\ \A field \in WrittenFields :
              IsNull(tool_call'.incoming, field)
                 => after[field] = before[field]]_vars

\* A call gave one field and left another null, on a record that holds a
\* pending query.
C24_Witness ==
    /\ tool_call.tool \in DemoWrites
    /\ tool_call.user_key = "default"
    /\ tool_call.incoming.location = <<"Boston">>
    /\ tool_call.incoming.allergies = None
    /\ USER_METADATA_MAP["default"].location = <<"Boston">>
    /\ USER_METADATA_MAP["default"].allergies = <<"shellfish">>
    /\ USER_METADATA_MAP["default"].pending_query = QPizza
    /\ "guest" \in DOMAIN USER_METADATA_MAP


---------------------------------------------------------------------------
(* Properties of the routes of the three resources on a refusal.           *)

SocialRoutes ==
    {"send_friend_request", "accept_friend_request",
     "decline_friend_request", "create_collection", "add_restaurant",
     "remove_restaurant", "create_group", "add_member"}

ClientError(status) == status >= 400 /\ status < 500

\* C25: a call of a friends, groups or collections route that answers with
\* a 4xx status leaves every table as it was.
C25_RefusalChangesNothing ==
    [][(resp'.op \in SocialRoutes /\ ClientError(resp'.status))
          => UNCHANGED dbVars]_vars

\* A second send of a pending request was refused with 400 while the
\* tables hold a request and a group.
C25_Witness400 ==
    /\ resp.op = "send_friend_request"
    /\ resp.status = 400
    /\ Len(friend_requests) = 1
    /\ Len(groups) = 1


---------------------------------------------------------------------------
(* Properties of the users routes.                                         *)

\* The User rows of a subject (cognito_user_id is a unique column).
UserRowsOf(subject) == {u \in DOMAIN users : u = subject}

ProfileColumns ==
    {"location", "allergies", "diet_type", "taste_vector", "favorite_dishes"}

SyncedSubject == get_current_user_id(resp.token).user_id

\* C26: after a successful sync_user the subject has exactly one User row,
\* however often it synced and whatever update_profile did in between; a
\* sync of a subject that has a row leaves the location, allergies, diet
\* type, taste vector and favorite dishes of the row as they were; and no
\* step removes a User row.
C26_OneRowAndProfileKept ==
    [][/\ DOMAIN users \subseteq DOMAIN users'
       /\ (resp'.op = "sync_user" /\ resp'.status = 200)
             => LET subject == get_current_user_id(resp'.token).user_id IN
                /\ Cardinality({u \in DOMAIN users' : u = subject}) = 1
                /\ subject \in DOMAIN users
                      => \A column \in ProfileColumns :
                            users'[subject][column] = users[subject][column]]_vars

\* A repeated sync of a subject whose profile was updated changed the name
\* back and kept the profile.
C26_Witness ==
    /\ resp.op = "sync_user"
    /\ resp.status = 200
    /\ Cardinality(UserRowsOf(SyncedSubject)) = 1
    /\ users[SyncedSubject].name = "Renamed"
    /\ users[SyncedSubject].location = "Boston"
    /\ users[SyncedSubject].allergies = <<"nuts">>


---------------------------------------------------------------------------
\* C27: after any sequence of send, accept and decline calls there is at
\* most one Friendship row for each unordered pair of users, and get_friends
\* lists no friend twice.
C27_OneFriendshipPerPair ==
    /\ \A i, j \in DOMAIN friendships :
          ({friendships[i].user1_id, friendships[i].user2_id}
              = {friendships[j].user1_id, friendships[j].user2_id})
             => i = j
    /\ \A user_id \in DOMAIN users :
          \A i, j \in DOMAIN get_friends(user_id) :
             get_friends(user_id)[i] = get_friends(user_id)[j] => i = j


---------------------------------------------------------------------------
\* C28: for a user with allergies, every dish among the recommended_dishes
\* of every restaurant filter_and_rank_recommendations returns is a dish of
\* that restaurant's menu that passed the allergy filter (the menu_items of
\* the restaurant object are the menu after the filters).
C28_RecommendedPassedAllergyFilter ==
    (/\ tool_call.tool = "filter_and_rank_recommendations"
     /\ tool_call.result # NoResult
     /\ tool_call.args.allergies # <<>>)
        => \A r \in DOMAIN tool_call.result.ranked :
              \A d \in DOMAIN tool_call.result.ranked[r].recommended_dishes :
                 \E m \in DOMAIN tool_call.result.ranked[r].menu_items :
                    tool_call.result.ranked[r].menu_items[m]
                       = tool_call.result.ranked[r].recommended_dishes[d].name


---------------------------------------------------------------------------
(* Properties of a resumed chat turn.                                      *)

\* The turn was resumed: the pending query took the place of the query of
\* the request, and the ranking of the general stage was reached.
ResumedSearch ==
    /\ resp.op = "chat_endpoint"
    /\ resp.query # resp.request.query
    /\ resp.kind \in {"recommendations", "no_results"}

\* C29: when a pending query is resumed by a location reply, the cuisine
\* filter and the diet stated by the query that the ranking is called with
\* are those of the restored query, not those of the text of the reply.
C29_ResumedFiltersOfRestoredQuery ==
    ResumedSearch
        => /\ resp.cuisine_filter = extract_cuisine_from_query(resp.query)
           /\ \A classification \in DishDiets :
                 extract_diet_from_query(resp.query, classification) # NoDiet
                    => resp.diet_type
                          = extract_diet_from_query(resp.query, classification)


---------------------------------------------------------------------------
(* Properties of the reads of a group.                                     *)

\* The last call was made by a registered user who has no member row in
\* the group it names.
NonMemberAsked(op) ==
    /\ resp.op = op
    /\ Verified(resp.token)
    /\ UserExists(Caller(resp.token))
    /\ GroupExists(resp.arg)
    /\ MemberRows(resp.arg, Caller(resp.token)) = {}

\* C30: get_group_recommendations, like get_group, answers a registered
\* user who is not a member of the group with 403 and without the members,
\* their allergies and taste vectors.
C30_MembersOnlyForMembers ==
    /\ NonMemberAsked("get_group")
          => resp.status = 403 /\ resp.members = <<>>
    /\ NonMemberAsked("get_group_recommendations")
          => resp.status = 403 /\ resp.members = <<>>


=============================================================================
